---- MODULE Spec2Model ----
(***************************************************************************)
(* Model of the reconciliation core of the Inventory dashboard:            *)
(*   - app/views/google_earth_file.py  (Normalizer, Baseline Differ and    *)
(*     the "Google Earth File Control" page)                               *)
(*   - app/views/hubspot_leads_file.py (identifier / yes-no / date         *)
(*     normalizers, overlay-source loader, column enrichment)              *)
(*                                                                         *)
(* Text is modelled as a sequence of one-character strings, so that        *)
(* strip(), lower(), replace(), float(), strptime() and strftime() are     *)
(* computed character by character as the Python code computes them.       *)
(* A missing spreadsheet cell (pandas NaN) is the value NaN.               *)
(***************************************************************************)
EXTENDS Integers, Sequences, FiniteSets, TLC

(***************************************************************************)
(* Text helpers (Python str methods used by the code)                      *)
(***************************************************************************)

\* pandas' missing value; str(NaN) is the text "nan"
NaN == <<"NaN">>

\* The "no value" of Python (None)
None == <<"None">>

Digits == {"0", "1", "2", "3", "4", "5", "6", "7", "8", "9"}

DigitVal(c) ==
  CASE c = "0" -> 0 [] c = "1" -> 1 [] c = "2" -> 2 [] c = "3" -> 3
    [] c = "4" -> 4 [] c = "5" -> 5 [] c = "6" -> 6 [] c = "7" -> 7
    [] c = "8" -> 8 [] c = "9" -> 9

DigitChar(n) ==
  CASE n = 0 -> "0" [] n = 1 -> "1" [] n = 2 -> "2" [] n = 3 -> "3"
    [] n = 4 -> "4" [] n = 5 -> "5" [] n = 6 -> "6" [] n = 7 -> "7"
    [] n = 8 -> "8" [] n = 9 -> "9"

\* str.lower() on one character (the letters that occur in the modelled cells)
LowerChar(c) ==
  CASE c = "Y" -> "y" [] c = "N" -> "n" [] c = "O" -> "o" [] c = "E" -> "e"
    [] c = "S" -> "s" [] c = "A" -> "a" [] c = "T" -> "t" [] c = "U" -> "u"
    [] c = "L" -> "l" [] c = "I" -> "i" [] c = "D" -> "d" [] c = "R" -> "r"
    [] OTHER -> c

\* str.lower()
Lower(s) == [i \in 1..Len(s) |-> LowerChar(s[i])]

RECURSIVE LStrip(_)
LStrip(s) == IF s # <<>> /\ Head(s) = " " THEN LStrip(Tail(s)) ELSE s

RECURSIVE RStrip(_)
RStrip(s) ==
  IF s # <<>> /\ s[Len(s)] = " " THEN RStrip(SubSeq(s, 1, Len(s) - 1)) ELSE s

\* str.strip()
Strip(s) == RStrip(LStrip(s))

\* str.replace(ch, "")
RECURSIVE RemoveChar(_, _)
RemoveChar(s, ch) ==
  IF s = <<>> THEN <<>>
  ELSE IF Head(s) = ch THEN RemoveChar(Tail(s), ch)
       ELSE <<Head(s)>> \o RemoveChar(Tail(s), ch)

AllDigits(s) == \A i \in 1..Len(s) : s[i] \in Digits

\* str.isdigit(): non-empty and every character a digit
IsDigitStr(s) == s # <<>> /\ AllDigits(s)

\* value of a digit string (0 for the empty string)
RECURSIVE DigitsVal(_)
DigitsVal(s) ==
  IF s = <<>> THEN 0
  ELSE 10 * DigitsVal(SubSeq(s, 1, Len(s) - 1)) + DigitVal(s[Len(s)])

\* str(n) for a natural number
RECURSIVE NatToStr(_)
NatToStr(n) ==
  IF n < 10 THEN <<DigitChar(n)>> ELSE NatToStr(n \div 10) \o <<DigitChar(n % 10)>>

\* str(n) for an integer
IntToStr(n) == IF n < 0 THEN <<"-">> \o NatToStr(0 - n) ELSE NatToStr(n)

\* str(val) of a cell value: NaN prints as "nan"
Str(v) == IF v = NaN THEN <<"n", "a", "n">> ELSE IF v = None THEN <<"N", "o", "n", "e">> ELSE v

\* position of the first ch in s, 0 if absent
RECURSIVE IndexOf(_, _, _)
IndexOf(s, ch, i) ==
  IF i > Len(s) THEN 0 ELSE IF s[i] = ch THEN i ELSE IndexOf(s, ch, i + 1)

\* s.split(ch)
RECURSIVE Split(_, _)
Split(s, ch) ==
  LET k == IndexOf(s, ch, 1)
  IN IF k = 0 THEN <<s>>
     ELSE <<SubSeq(s, 1, k - 1)>> \o Split(SubSeq(s, k + 1, Len(s)), ch)

(***************************************************************************)
(* float(s): optional sign, digits, optional "." and digits, at least one  *)
(* digit.  The result keeps the integer part, the sign and whether the     *)
(* fraction is zero, which is all int(f) and f.is_integer() read.          *)
(***************************************************************************)
ParseFloat(s0) ==
  LET s    == Strip(s0)
      neg  == s # <<>> /\ Head(s) = "-"
      body == IF s # <<>> /\ Head(s) \in {"-", "+"} THEN Tail(s) ELSE s
      dot  == IndexOf(body, ".", 1)
      ip   == IF dot = 0 THEN body ELSE SubSeq(body, 1, dot - 1)
      fp   == IF dot = 0 THEN <<>> ELSE SubSeq(body, dot + 1, Len(body))
  IN IF AllDigits(ip) /\ AllDigits(fp) /\ Len(ip) + Len(fp) > 0
     THEN [ok |-> TRUE, neg |-> neg, ip |-> DigitsVal(ip), int |-> DigitsVal(fp) = 0]
     ELSE [ok |-> FALSE, neg |-> FALSE, ip |-> 0, int |-> FALSE]

\* int(f): truncation toward zero
FloatToInt(f) == IF f.neg THEN 0 - f.ip ELSE f.ip

\* int(s) of a stripped text: optional sign followed by digits only
ParseInt(s0) ==
  LET s    == Strip(s0)
      neg  == s # <<>> /\ Head(s) = "-"
      body == IF s # <<>> /\ Head(s) \in {"-", "+"} THEN Tail(s) ELSE s
  IN IF IsDigitStr(body)
     THEN [ok |-> TRUE, val |-> IF neg THEN 0 - DigitsVal(body) ELSE DigitsVal(body)]
     ELSE [ok |-> FALSE, val |-> 0]

(***************************************************************************)
(* Calendar dates.  A date is the number of days from the spreadsheet      *)
(* origin 1899-12-30 (datetime(1899, 12, 30)); a missing date is NoDate.   *)
(***************************************************************************)
NoDate == [isnull |-> TRUE, day |-> 0]

DateOf(n) == [isnull |-> FALSE, day |-> n]

IsLeap(y) == (y % 4 = 0 /\ y % 100 # 0) \/ y % 400 = 0

DaysInMonth(y, m) ==
  IF m = 2 THEN (IF IsLeap(y) THEN 29 ELSE 28)
  ELSE IF m \in {4, 6, 9, 11} THEN 30 ELSE 31

\* days from 1970-01-01 to the civil date y-m-d (proleptic Gregorian, y >= 1)
DaysFromCivil(y, m, d) ==
  LET yy  == IF m <= 2 THEN y - 1 ELSE y
      era == yy \div 400
      yoe == yy - era * 400
      mp  == IF m > 2 THEN m - 3 ELSE m + 9
      doy == (153 * mp + 2) \div 5 + d - 1
      doe == yoe * 365 + yoe \div 4 - yoe \div 100 + doy
  IN era * 146097 + doe - 719468

\* datetime(1899, 12, 30) as days from 1970-01-01
OriginDays == DaysFromCivil(1899, 12, 30)

\* the civil date <<y, m, d>> of a day count from 1970-01-01
CivilFromDays(z0) ==
  LET z   == z0 + 719468
      era == z \div 146097
      doe == z - era * 146097
      yoe == (doe - doe \div 1460 + doe \div 36524 - doe \div 146096) \div 365
      doy == doe - (365 * yoe + yoe \div 4 - yoe \div 100)
      mp  == (5 * doy + 2) \div 153
      d   == doy - (153 * mp + 2) \div 5 + 1
      m   == IF mp < 10 THEN mp + 3 ELSE mp - 9
      y   == yoe + era * 400 + (IF m <= 2 THEN 1 ELSE 0)
  IN <<y, m, d>>

Pad(n, w) ==
  LET t == NatToStr(n)
  IN [i \in 1..(IF Len(t) < w THEN w - Len(t) ELSE 0) |-> "0"] \o t

\* date.strftime("%m/%d/%Y") where the C library prints %Y with at least w
\* digits: glibc does not pad the year (w = 1), other libraries pad it to
\* four digits (w = 4)
Strftime_mdY_w(dt, w) ==
  LET c == CivilFromDays(dt.day + OriginDays)
  IN Pad(c[2], 2) \o <<"/">> \o Pad(c[3], 2) \o <<"/">> \o Pad(c[1], w)

\* the widths of %Y among the platforms the program runs on
StrftimeYearWidths == {1, 4}

\* date.strftime("%m/%d/%Y") of a date of the years 1000 to 9999, which
\* prints the same on every platform
Strftime_mdY(dt) == Strftime_mdY_w(dt, 4)

\* str(d) of a datetime.date: isoformat, always padded
Isoformat(dt) ==
  LET c == CivilFromDays(dt.day + OriginDays)
  IN Pad(c[1], 4) \o <<"-">> \o Pad(c[2], 2) \o <<"-">> \o Pad(c[3], 2)

\* strptime directive %m: 1[0-2] | 0[1-9] | [1-9]
MatchMonth(p) ==
  \/ Len(p) = 1 /\ p[1] \in Digits \ {"0"}
  \/ Len(p) = 2 /\ p[1] = "1" /\ p[2] \in {"0", "1", "2"}
  \/ Len(p) = 2 /\ p[1] = "0" /\ p[2] \in Digits \ {"0"}

\* strptime directive %d: 3[01] | [12]\d | 0[1-9] | [1-9] | " "[1-9]
MatchDay(p) ==
  \/ Len(p) = 1 /\ p[1] \in Digits \ {"0"}
  \/ Len(p) = 2 /\ p[1] = "3" /\ p[2] \in {"0", "1"}
  \/ Len(p) = 2 /\ p[1] \in {"1", "2"} /\ p[2] \in Digits
  \/ Len(p) = 2 /\ p[1] \in {"0", " "} /\ p[2] \in Digits \ {"0"}

\* strptime directive %Y: exactly four digits
MatchYear(p) == Len(p) = 4 /\ AllDigits(p)

\* datetime(y, m, d) raises ValueError unless it is a real date of year >= 1
CivilToDate(yp, mp, dp) ==
  IF MatchYear(yp) /\ MatchMonth(mp) /\ MatchDay(dp)
  THEN LET y == DigitsVal(yp)
           m == DigitsVal(mp)
           d == DigitsVal(RemoveChar(dp, " "))
       IN IF y >= 1 /\ d <= DaysInMonth(y, m)
          THEN DateOf(DaysFromCivil(y, m, d) - OriginDays)
          ELSE NoDate
  ELSE NoDate

\* datetime.strptime(s, "%m/%d/%Y"), NoDate when it raises
Strptime_mdY(s) ==
  LET p == Split(s, "/")
  IN IF Len(p) = 3 THEN CivilToDate(p[3], p[1], p[2]) ELSE NoDate

\* datetime.strptime(s, "%Y-%m-%d"), NoDate when it raises
Strptime_Ymd(s) ==
  LET p == Split(s, "-")
  IN IF Len(p) = 3 THEN CivilToDate(p[1], p[2], p[3]) ELSE NoDate

(***************************************************************************)
(* Cell normalizers of google_earth_file.py (the Normalizer)               *)
(***************************************************************************)
T_nan  == <<"n", "a", "n">>
T_none == <<"n", "o", "n", "e">>
T_null == <<"n", "u", "l", "l">>
T_nat  == <<"n", "a", "t">>
T_Yes  == <<"Y", "e", "s">>
T_No   == <<"N", "o">>

YES_SET == {<<"y", "e", "s">>, <<"y">>, <<"t", "r", "u", "e">>, <<"1">>}
NO_SET  == {<<"n", "o">>, <<"n">>, <<"f", "a", "l", "s", "e">>, <<"0">>}

_normalize_yes_no(val) ==
  IF val = None THEN <<>>
  ELSE LET s == Lower(Strip(Str(val)))
       IN IF s = <<>> THEN <<>>
          ELSE IF s \in YES_SET THEN T_Yes
          ELSE IF s \in NO_SET THEN T_No
          ELSE <<>>

_is_effectively_empty(val) ==
  IF val = None THEN TRUE
  ELSE Lower(Strip(Str(val))) \in {<<>>, T_nan, T_none, T_null, T_nat, <<"-">>}

\* largest day count pd.Timedelta(days=...) represents (2^63 ns); beyond it
\* the constructor raises and _parse_excel_serial returns None
TimedeltaMaxDays == 106751

\* float(s), int(f), origin + Timedelta(days); None when any of them raises.
\* There is no range check on the serial day.
_parse_excel_serial(s) ==
  LET f == ParseFloat(s)
  IN IF f.ok /\ FloatToInt(f) <= TimedeltaMaxDays /\ FloatToInt(f) >= 0 - TimedeltaMaxDays
     THEN DateOf(FloatToInt(f))
     ELSE NoDate

\* the first of the three attempts of _parse_us_date that did not raise
FirstParsed(us, iso, serial) ==
  IF ~us.isnull THEN us ELSE IF ~iso.isnull THEN iso ELSE serial

\* s = str(val).strip() parsed as %m/%d/%Y, then %Y-%m-%d, then a serial day
ParseStripped(s) == FirstParsed(Strptime_mdY(s), Strptime_Ymd(s), _parse_excel_serial(s))

_parse_us_date(val) ==
  IF _is_effectively_empty(val) THEN NoDate ELSE ParseStripped(Strip(Str(val)))

(***************************************************************************)
(* Cell normalizers of hubspot_leads_file.py                               *)
(***************************************************************************)
_norm_id(val) ==
  IF val = None THEN <<>>
  ELSE LET s == Strip(Str(val))
           s_no_commas == RemoveChar(s, ",")
           f == ParseFloat(s_no_commas)
       IN IF s = <<>> \/ Lower(s) \in {T_nan, T_none, T_null} THEN <<>>
          ELSE IF f.ok /\ f.int THEN IntToStr(FloatToInt(f))
          ELSE IF IsDigitStr(s_no_commas) THEN IntToStr(DigitsVal(s_no_commas))
          ELSE s

_normalize_yes_no_ge(val) ==
  LET s == IF val = None THEN <<>> ELSE Lower(Strip(Str(val)))
  IN IF s \in {<<"y", "e", "s">>, <<"y">>, <<"t", "r", "u", "e">>, <<"1">>} THEN T_Yes
     ELSE IF s \in {<<"n", "o">>, <<"n">>, <<"f", "a", "l", "s", "e">>, <<"0">>} THEN T_No
     ELSE <<>>

\* bounds of the accepted spreadsheet serial day in _parse_to_mmddyyyy_ge
SerialMin == 1
SerialMax == 60000

\* _parse_to_mmddyyyy_ge on a platform whose strftime prints %Y with at
\* least w digits
ParseDateGe(val, w) ==
  IF val = None THEN <<>>
  ELSE LET s == Strip(Str(val))
           f == ParseFloat(s)
           days == FloatToInt(f)
       IN IF s = <<>> \/ Lower(s) \in {T_nan, T_null, T_none, T_nat, <<"-">>} THEN <<>>
          ELSE IF ~Strptime_mdY(s).isnull THEN Strftime_mdY_w(Strptime_mdY(s), w)
          ELSE IF ~Strptime_Ymd(s).isnull THEN Strftime_mdY_w(Strptime_Ymd(s), w)
          ELSE IF f.ok /\ SerialMin <= days /\ days <= SerialMax
               THEN Strftime_mdY_w(DateOf(days), w)
          ELSE <<>>

\* the cells of the modelled overlay sources carry years of four digits
_parse_to_mmddyyyy_ge(val) == ParseDateGe(val, 4)

(***************************************************************************)
(* Spreadsheet files.  A file is its header (the set of column names) and  *)
(* its rows; a row gives one stored cell per column: a text, or NaN for an *)
(* empty cell.  A numeric cell is represented by its printed text, which   *)
(* is what read_excel(dtype=str) and str(val) make of it.                  *)
(***************************************************************************)
REQ_COLS == {"Id", "Has Fence on Google Earth", "Google Earth Last Picture At",
             "Google Earth Last Checked At"}

\* texts pandas reads as a missing value (default na_values)
NA_VALUES == {<<>>, T_nan, T_null, <<"N", "U", "L", "L">>, <<"N", "o", "n", "e">>,
              <<"N", "a", "N">>, <<"N", "A">>}

\* pd.read_excel: one cell as it arrives in the DataFrame
ReadCell(c) == IF c = NaN \/ c \in NA_VALUES THEN NaN ELSE c

ReadRow(r) == [f \in DOMAIN r |-> ReadCell(r[f])]

\* pd.read_excel(io.BytesIO(xlsx_bytes), dtype=str)
read_excel(file) == [cols |-> file.cols, rows |-> [i \in 1..Len(file.rows) |-> ReadRow(file.rows[i])]]

\* the columns _require_columns reports as missing (it raises when non-empty)
_require_columns(df) == {c \in REQ_COLS : c \notin df.cols}

\* drop_duplicates(subset=["Id"], keep="last"): a row stays when no later row has its Id
RECURSIVE DropDuplicatesKeepLast(_)
DropDuplicatesKeepLast(rows) ==
  IF rows = <<>> THEN <<>>
  ELSE LET h == Head(rows)
           t == Tail(rows)
       IN IF \E j \in 1..Len(t) : t[j].Id = h.Id
          THEN DropDuplicatesKeepLast(t)
          ELSE <<h>> \o DropDuplicatesKeepLast(t)

\* drop_duplicates(subset=["Id"], keep="first"): a row stays when no earlier row has its Id
RECURSIVE DropDuplicatesKeepFirst(_)
DropDuplicatesKeepFirst(rows) ==
  IF rows = <<>> THEN <<>>
  ELSE LET n == Len(rows)
           l == rows[n]
           t == SubSeq(rows, 1, n - 1)
       IN IF \E j \in 1..Len(t) : t[j].Id = l.Id
          THEN DropDuplicatesKeepFirst(t)
          ELSE DropDuplicatesKeepFirst(t) \o <<l>>

IdNotEmpty(r) == r.Id # <<>>

StripId(rows) == [i \in 1..Len(rows) |-> [rows[i] EXCEPT !.Id = Strip(Str(rows[i].Id))]]

\* mutation of _dedupe_last_wins: the duplicates are not dropped
DedupeNoDrop(rows) == SelectSeq(StripId(rows), IdNotEmpty)

\* mutation of _dedupe_last_wins: keep="first"
DedupeFirstWins(rows) == DropDuplicatesKeepFirst(SelectSeq(StripId(rows), IdNotEmpty))

_dedupe_last_wins(rows) == DropDuplicatesKeepLast(SelectSeq(StripId(rows), IdNotEmpty))

\* df_raw[c].astype(str).str.strip() for the four required columns
StripReqCols(rows) ==
  [i \in 1..Len(rows) |->
     [rows[i] EXCEPT !.Id    = Strip(Str(rows[i].Id)),
                     !.fence = Strip(Str(rows[i].fence)),
                     !.pic   = Strip(Str(rows[i].pic)),
                     !.chk   = Strip(Str(rows[i].chk))]]

\* _norm_pic / _norm_chk: whether the cell v, parsed as d, counts as an
\* invalid date (d is None and not _is_effectively_empty(v))
IsInvalidDate(d, v) == d.isnull /\ ~_is_effectively_empty(v)

\* _parse_us_date on the two date cells of every row (lines 143-145)
ParseDates(df) ==
  [i \in 1..Len(df) |-> [fld \in {"pic", "chk"} |-> _parse_us_date(df[i][fld])]]

\* mutation of the sample list: every invalid cell is sampled
InvalidSamplesUncapped(rows, dates, fld, collect, cap) ==
  LET idx == {i \in 1..Len(rows) : IsInvalidDate(dates[i][fld], rows[i][fld]) /\ collect}
      Nth[k \in 1..Cardinality(idx)] ==
        CHOOSE i \in idx : Cardinality({j \in idx : j < i}) = k - 1
  IN [k \in 1..Cardinality(idx) |-> [Id |-> rows[Nth[k]].Id, RawValue |-> rows[Nth[k]][fld]]]

\* the invalid samples of one date column, in row order, at most cap of
\* them; dates[i][fld] is the parsed cell of row i
RECURSIVE InvalidSamples(_, _, _, _, _)
InvalidSamples(rows, dates, fld, collect, cap) ==
  IF rows = <<>> THEN <<>>
  ELSE LET n    == Len(rows)
           init == InvalidSamples(SubSeq(rows, 1, n - 1), dates, fld, collect, cap)
       IN IF IsInvalidDate(dates[n][fld], rows[n][fld]) /\ collect /\ Len(init) < cap
          THEN init \o <<[Id |-> rows[n].Id, RawValue |-> rows[n][fld]]>>
          ELSE init

InvalidCount(rows, dates, fld) ==
  Cardinality({i \in 1..Len(rows) : IsInvalidDate(dates[i][fld], rows[i][fld])})

\* default of normalize_excel_bytes(max_samples_per_column=...)
max_samples_per_column == 20

EmptyMetrics ==
  [total_rows_input |-> 0, rows_after_id_filter |-> 0, discarded_empty_id |-> 0,
   invalid_date_picture |-> 0, invalid_date_checked |-> 0]

EmptySamples == [invalid_picture_samples |-> <<>>, invalid_checked_samples |-> <<>>]

\* lines 113-169 of normalize_excel_bytes: the Snapshot, metrics and samples
\* of the total_rows stripped rows, of which df are left by _dedupe_last_wins
\* and whose date cells parse as dates
NormalizedOutput(total_rows, df, dates, collect_invalid_samples, cap) ==
  [err |-> FALSE, missing |-> {},
   df |-> [i \in 1..Len(df) |->
             [id           |-> df[i].Id,
              has_fence    |-> _normalize_yes_no(df[i].fence),
              last_picture |-> dates[i]["pic"],
              last_checked |-> dates[i]["chk"]]],
   metrics |->
     [total_rows_input     |-> total_rows,
      rows_after_id_filter |-> Len(df),
      discarded_empty_id   |-> total_rows - Len(df),
      invalid_date_picture |-> InvalidCount(df, dates, "pic"),
      invalid_date_checked |-> InvalidCount(df, dates, "chk")],
   samples |->
     [invalid_picture_samples |-> InvalidSamples(df, dates, "pic", collect_invalid_samples, cap),
      invalid_checked_samples |-> InvalidSamples(df, dates, "chk", collect_invalid_samples, cap)]]

\* lines 108-110: total_rows = len(df_raw); df = _dedupe_last_wins(df_raw)
NormalizeDeduped(total_rows, df, collect_invalid_samples, cap) ==
  NormalizedOutput(total_rows, df, ParseDates(df), collect_invalid_samples, cap)

\* normalize_excel_bytes: (df_out, metrics, samples), or the ValueError of
\* _require_columns (err = TRUE, missing = the columns it names)
normalize_excel_bytes(xlsx_bytes, collect_invalid_samples, cap) ==
  LET df_raw == read_excel(xlsx_bytes)
  IN IF _require_columns(df_raw) # {}
     THEN [err |-> TRUE, missing |-> _require_columns(df_raw), df |-> <<>>,
           metrics |-> EmptyMetrics, samples |-> EmptySamples]
     ELSE NormalizeDeduped(Len(df_raw.rows), _dedupe_last_wins(StripReqCols(df_raw.rows)),
                           collect_invalid_samples, cap)

(***************************************************************************)
(* Baseline Differ (google_earth_file.py)                                  *)
(***************************************************************************)
IdsOf(df) == {df[i].id : i \in 1..Len(df)}

\* df.set_index("id").loc[i] (the ids of a normalized frame are unique)
Loc(df, i) == df[CHOOSE k \in 1..Len(df) : df[k].id = i]

\* mutation of the comparison tuple: last_checked left out
TupleNoChecked(r) == <<r.has_fence, r.last_picture>>

\* a_tuple / b_tuple: the fields compare_new_vs_baseline compares
\* (_date_or_none maps every missing date to None, here NoDate)
TrackedTuple(r) == <<r.has_fence, r.last_picture, r.last_checked>>

modified_ids(new_df, base_df) ==
  {i \in IdsOf(new_df) \cap IdsOf(base_df) :
     TrackedTuple(Loc(new_df, i)) # TrackedTuple(Loc(base_df, i))}

\* mutation of unchanged_ids: the modified ids are not taken out
UnchangedAllCommon(new_df, base_df) == IdsOf(new_df) \cap IdsOf(base_df)

\* line 194: common_ids - set(modified_ids)
unchanged_ids(new_df, base_df) ==
  (IdsOf(new_df) \cap IdsOf(base_df)) \ modified_ids(new_df, base_df)

\* mutation of compare_new_vs_baseline: the identifiers the new file lacks
\* are counted as modified
CompareCountingRemoved(new_df, base_df) ==
  LET new_ids    == IdsOf(new_df)
      base_ids   == IdsOf(base_df)
      added      == new_ids \ base_ids
      mod_ids    == modified_ids(new_df, base_df) \cup (base_ids \ new_ids)
      same_ids   == unchanged_ids(new_df, base_df)
  IN [new_records       |-> Cardinality(added),
      modified_records  |-> Cardinality(mod_ids),
      unchanged_records |-> Cardinality(same_ids),
      total_new         |-> Len(new_df),
      total_baseline    |-> Len(base_df),
      added_ids         |-> added,
      modified_ids      |-> mod_ids,
      unchanged_ids     |-> same_ids]

\* compare_new_vs_baseline; added_ids_sample and modified_ids_sample are the
\* first 10 of added_ids and modified_ids
compare_new_vs_baseline(new_df, base_df) ==
  LET new_ids    == IdsOf(new_df)
      base_ids   == IdsOf(base_df)
      added      == new_ids \ base_ids
      mod_ids    == modified_ids(new_df, base_df)
      same_ids   == unchanged_ids(new_df, base_df)
  IN [new_records       |-> Cardinality(added),
      modified_records  |-> Cardinality(mod_ids),
      unchanged_records |-> Cardinality(same_ids),
      total_new         |-> Len(new_df),
      total_baseline    |-> Len(base_df),
      added_ids         |-> added,
      modified_ids      |-> mod_ids,
      unchanged_ids     |-> same_ids]

\* mutation of decide_replace: always replace
DecideReplaceAlways(summary) == TRUE

decide_replace(summary) == (summary.new_records + summary.modified_records) > 0

\* the summary of two empty Snapshots
EmptySummary ==
  [new_records |-> 0, modified_records |-> 0, unchanged_records |-> 0,
   total_new |-> 0, total_baseline |-> 0,
   added_ids |-> {}, modified_ids |-> {}, unchanged_ids |-> {}]

\* Python's None for a file: no object, no upload
NoObject == [absent |-> TRUE, cols |-> {}, rows |-> <<>>]

\* a spreadsheet with the given header and rows
File(cols, rows) == [absent |-> FALSE, cols |-> cols, rows |-> rows]

\* lines 218-227: the result for the normalized new file n and baseline b
\* with their summary; err = TRUE when normalize_excel_bytes raised
FlowResult(n, b, summary) ==
  IF n.err \/ b.err
  THEN [err |-> TRUE, summary |-> EmptySummary, replace_baseline |-> FALSE,
        new_metrics |-> EmptyMetrics, baseline_metrics |-> EmptyMetrics,
        invalid_samples |-> EmptySamples, new_df |-> <<>>, base_df |-> <<>>]
  ELSE [err |-> FALSE, summary |-> summary, replace_baseline |-> decide_replace(summary),
        new_metrics |-> n.metrics, baseline_metrics |-> b.metrics,
        invalid_samples |-> n.samples, new_df |-> n.df, base_df |-> b.df]

CompareNormalized(n, b) == FlowResult(n, b, compare_new_vs_baseline(n.df, b.df))

\* lines 213-217: an absent baseline is an empty frame
NormalizeBaseline(baseline_file_bytes) ==
  IF baseline_file_bytes = NoObject
  THEN [err |-> FALSE, missing |-> {}, df |-> <<>>,
        metrics |-> EmptyMetrics, samples |-> EmptySamples]
  ELSE normalize_excel_bytes(baseline_file_bytes, FALSE, max_samples_per_column)

run_compare_flow(new_file_bytes, baseline_file_bytes) ==
  CompareNormalized(normalize_excel_bytes(new_file_bytes, TRUE, max_samples_per_column),
                    NormalizeBaseline(baseline_file_bytes))

(***************************************************************************)
(* Overlay-source loader (hubspot_leads_file.py)                           *)
(***************************************************************************)
NormIdRows(rows) == [i \in 1..Len(rows) |-> [rows[i] EXCEPT !.Id = _norm_id(rows[i].Id)]]

\* df_raw["Id"].apply(_norm_id); drop "" ids; drop_duplicates(keep="last")
LoaderDedupe(rows) == DropDuplicatesKeepLast(SelectSeq(NormIdRows(rows), IdNotEmpty))

\* _load_google_earth_latest_df on the downloaded object b (NoObject: 404).
\* status "none": nothing to load; "error": no sheet has the four columns.
\* The modelled files have one sheet and spell their headers canonically.
_load_google_earth_latest_df(b) ==
  LET sheet  == read_excel(b)
      df_raw == LoaderDedupe(sheet.rows)
  IN IF b = NoObject THEN [status |-> "none", df |-> <<>>, raw_rows |-> 0]
     ELSE IF ~(REQ_COLS \subseteq sheet.cols)
     THEN [status |-> "error", df |-> <<>>, raw_rows |-> 0]
     ELSE [status |-> "ok",
           df |-> [i \in 1..Len(df_raw) |->
                     [Id    |-> df_raw[i].Id,
                      fence |-> _normalize_yes_no_ge(df_raw[i].fence),
                      pic   |-> _parse_to_mmddyyyy_ge(df_raw[i].pic),
                      chk   |-> _parse_to_mmddyyyy_ge(df_raw[i].chk)]],
           raw_rows |-> Len(sheet.rows)]

(***************************************************************************)
(* Leads pipeline, step 5: tracked columns, defaults and enrichment from   *)
(* the previous file (hubspot_leads_file.py).  A data frame is a sequence  *)
(* of column names and a sequence of rows, each row a function from the    *)
(* column names to cells.                                                  *)
(***************************************************************************)
Range(s) == {s[i] : i \in 1..Len(s)}

BEFORE_ZIPCODE ==
  <<"Has Fence on Google Earth", "Google Earth Last Picture At", "Google Earth Last Checked At">>

AFTER_LEADSTATUS ==
  <<"Asked To Be Contacted On",
    "Asked Contact For Promos Date",
    "Asked Contact For Promos",
    "Asked Contact Next Year Date",
    "Asked Contact Next Year",
    "Asked For No Contact",
    "Eligible for Emails">>

DEFAULTS_AFTER_LEADSTATUS ==
  [c \in Range(AFTER_LEADSTATUS) |->
     IF c \in {"Asked Contact For Promos", "Asked Contact Next Year", "Asked For No Contact"}
     THEN T_No
     ELSE IF c = "Eligible for Emails" THEN T_Yes
     ELSE <<>>]

\* dict.get(c, dflt)
DictGet(d, c, dflt) == IF c \in DOMAIN d THEN d[c] ELSE dflt

\* Python's None for a data frame, and a data frame
NoFrame == [absent |-> TRUE, cols |-> <<>>, rows |-> <<>>]

Frame(cols, rows) == [absent |-> FALSE, cols |-> cols, rows |-> rows]

Columns(df) == Range(df.cols)

\* DataFrame.empty: no rows or no columns
IsEmptyFrame(df) == Len(df.rows) = 0 \/ Len(df.cols) = 0

\* astype(str).str.strip().eq("")
IsBlankCell(v) == Strip(Str(v)) = <<>>

\* out[c] = dflt for a new column c, appended as the last column
AppendColumn(df, c, dflt) ==
  [df EXCEPT !.cols = Append(df.cols, c),
             !.rows = [i \in 1..Len(df.rows) |->
                         [k \in DOMAIN df.rows[i] \cup {c} |->
                            IF k = c THEN dflt ELSE df.rows[i][k]]]]

\* out.loc[mask_blank, c] = dflt, when dflt is not ""
DefaultBlanks(df, c, dflt) ==
  [df EXCEPT !.rows = [i \in 1..Len(df.rows) |->
                         IF IsBlankCell(df.rows[i][c]) /\ dflt # <<>>
                         THEN [df.rows[i] EXCEPT ![c] = dflt]
                         ELSE df.rows[i]]]

\* the loop of lines 448-455 and 482-489: a missing column is created with
\* its default, the blank cells of an existing column take the default
RECURSIVE DefaultColumns(_, _, _, _)
DefaultColumns(df, names, k, defaults) ==
  IF k > Len(names) THEN df
  ELSE LET c    == names[k]
           dflt == DictGet(defaults, c, <<>>)
       IN DefaultColumns(IF c \in Columns(df) THEN DefaultBlanks(df, c, dflt)
                         ELSE AppendColumn(df, c, dflt),
                         names, k + 1, defaults)

\* df.columns.get_loc(c), counted from 0
GetLoc(df, c) == (CHOOSE i \in 1..Len(df.cols) : df.cols[i] = c) - 1

\* df_[col_name].fillna("")
FillNa(v) == IF v = NaN THEN <<>> ELSE v

\* _insert_at of insert_columns: an existing column stays where it is, its
\* missing cells become "" and its blank cells the default; a new column is
\* put at position idx_ (cols[idx_:idx_] = [col_name]) holding the default
_insert_at(df_, idx_, col_name, default_val) ==
  IF col_name \in Columns(df_)
  THEN DefaultBlanks([df_ EXCEPT !.rows = [i \in 1..Len(df_.rows) |->
                        [df_.rows[i] EXCEPT ![col_name] = FillNa(df_.rows[i][col_name])]]],
                     col_name, default_val)
  ELSE LET at == IF idx_ > Len(df_.cols) THEN Len(df_.cols) ELSE idx_
       IN [df_ EXCEPT !.cols = SubSeq(df_.cols, 1, at) \o <<col_name>>
                                 \o SubSeq(df_.cols, at + 1, Len(df_.cols)),
                      !.rows = [i \in 1..Len(df_.rows) |->
                                  [k \in DOMAIN df_.rows[i] \cup {col_name} |->
                                     IF k = col_name THEN default_val ELSE df_.rows[i][k]]]]

\* for name in ...: out = _insert_at(out, insert_idx, name, default); insert_idx += 1
RECURSIVE InsertAll(_, _, _, _, _)
InsertAll(df, insert_idx, names, k, cols_with_defaults) ==
  IF k > Len(names) THEN df
  ELSE InsertAll(_insert_at(df, insert_idx, names[k],
                            DictGet(cols_with_defaults, names[k], <<>>)),
                 insert_idx + 1, names, k + 1, cols_with_defaults)

insert_columns(df, before, after, cols_with_defaults) ==
  LET o1 == IF before \in Columns(df)
            THEN InsertAll(df, GetLoc(df, before), BEFORE_ZIPCODE, 1, cols_with_defaults)
            ELSE df
  IN IF after \in Columns(o1)
     THEN InsertAll(o1, GetLoc(o1, after) + 1, AFTER_LEADSTATUS, 1, cols_with_defaults)
     ELSE DefaultColumns(o1, AFTER_LEADSTATUS, 1, cols_with_defaults)

\* current.merge(previous.drop_duplicates(subset=["Id"], keep="first"),
\* on="Id", how="left"): the cell of column c that the merge puts beside a
\* current row with identifier id; NaN when no previous row has that Id
MergedPrev(previous, id, c) ==
  LET prev == DropDuplicatesKeepFirst(previous.rows)
      hits == {j \in 1..Len(prev) : prev[j]["Id"] = id}
  IN IF hits = {} THEN NaN ELSE prev[CHOOSE j \in hits : TRUE][c]

\* mask_take_prev of enrich_from_previous_for_columns on the cell v
EnrichTakesPrev(v) ==
  LET s == Str(FillNa(v))
  IN Strip(s) = <<>> \/ Lower(s) = T_nan

\* enrich_from_previous_for_columns; err is the KeyError raised when the
\* previous frame has no Id column.  A column of the previous frame that the
\* current frame lacks comes out of the merge unsuffixed, as a last column.
enrich_from_previous_for_columns(current, previous, cols_to_enrich) ==
  LET present == SelectSeq(cols_to_enrich, LAMBDA c : c \in Columns(previous))
      shared  == {c \in Range(present) : c \in Columns(current)}
      fresh   == SelectSeq(present, LAMBDA c : c \notin Columns(current))
      taken   == {p \in (1..Len(current.rows)) \X shared :
                    EnrichTakesPrev(current.rows[p[1]][p[2]])}
  IN IF previous = NoFrame \/ IsEmptyFrame(previous) \/ "Id" \notin Columns(current)
     THEN [err |-> FALSE, df |-> current, rows_enriched |-> 0]
     ELSE IF present = <<>>
     THEN [err |-> FALSE, df |-> current, rows_enriched |-> 0]
     ELSE IF "Id" \notin Columns(previous)
     THEN [err |-> TRUE, df |-> current, rows_enriched |-> 0]
     ELSE [err |-> FALSE,
           df  |-> [current EXCEPT
                      !.cols = current.cols \o fresh,
                      !.rows = [i \in 1..Len(current.rows) |->
                        LET r == current.rows[i]
                        IN [k \in DOMAIN r \cup Range(fresh) |->
                              IF k \in shared
                              THEN IF <<i, k>> \in taken
                                   THEN MergedPrev(previous, r["Id"], k)
                                   ELSE Str(FillNa(r[k]))
                              ELSE IF k \in Range(fresh)
                              THEN MergedPrev(previous, r["Id"], k)
                              ELSE r[k]]]],
           rows_enriched |-> Cardinality(taken)]

\* mutation of take_prev: the current cell is not looked at
TakePrevIgnoringCurrent(prev_val, cur_val, dflt) ==
  ~(Strip(Str(prev_val)) = <<>> \/ Lower(Str(prev_val)) = T_nan)

\* take_prev of apply_after_leadstatus_rules (lines 502-505) for one cell:
\* (~prev_is_blank) & (prev_val != dflt) & mask_is_default_now
take_prev(prev_val, cur_val, dflt) ==
  /\ ~(Strip(Str(prev_val)) = <<>> \/ Lower(Str(prev_val)) = T_nan)
  /\ Str(prev_val) # dflt
  /\ Str(cur_val) = dflt

\* apply_after_leadstatus_rules; err is the KeyError raised by
\* previous[prev_cols] when the previous frame has no id column
apply_after_leadstatus_rules(current, previous, defaults, cols, id_col) ==
  LET out    == DefaultColumns(current, cols, 1, defaults)
      shared == {c \in Range(cols) : c \in Columns(previous)}
      taken  == {p \in (1..Len(out.rows)) \X shared :
                   take_prev(MergedPrev(previous, out.rows[p[1]][id_col], p[2]),
                             out.rows[p[1]][p[2]],
                             DictGet(defaults, p[2], <<>>))}
  IN IF previous = NoFrame \/ IsEmptyFrame(previous) \/ id_col \notin Columns(out)
     THEN [err |-> FALSE, df |-> out, replacements |-> 0]
     ELSE IF id_col \notin Columns(previous)
     THEN [err |-> TRUE, df |-> out, replacements |-> 0]
     ELSE [err |-> FALSE,
           df  |-> [out EXCEPT
                      !.rows = [i \in 1..Len(out.rows) |->
                        [k \in DOMAIN out.rows[i] |->
                           IF <<i, k>> \in taken
                           THEN MergedPrev(previous, out.rows[i][id_col], k)
                           ELSE out.rows[i][k]]]],
           replacements |-> Cardinality(taken)]

\* step 5 of the pipeline (lines 1004-1014) on the working dataset df_work
\* with the previous file prev_df; failed when an operation raised
Step5Result(df_work, prev_df) ==
  LET cols_with_defaults ==
        [c \in Range(BEFORE_ZIPCODE) \cup Range(AFTER_LEADSTATUS) |->
           IF c \in Range(BEFORE_ZIPCODE) THEN <<>> ELSE DEFAULTS_AFTER_LEADSTATUS[c]]
      inserted == insert_columns(df_work, "ZipCode", "LeadStatus", cols_with_defaults)
      enriched == enrich_from_previous_for_columns(inserted, prev_df, BEFORE_ZIPCODE)
      ruled    == apply_after_leadstatus_rules(enriched.df, prev_df,
                                               DEFAULTS_AFTER_LEADSTATUS, AFTER_LEADSTATUS, "Id")
  IN IF prev_df = NoFrame
     THEN [failed |-> FALSE, inserted |-> inserted, enriched |-> inserted, df_work |-> inserted,
           rows_enriched |-> 0, replacements |-> 0]
     ELSE IF enriched.err \/ ruled.err
     THEN [failed |-> TRUE, inserted |-> inserted, enriched |-> inserted, df_work |-> df_work,
           rows_enriched |-> 0, replacements |-> 0]
     ELSE [failed |-> FALSE, inserted |-> inserted, enriched |-> enriched.df,
           df_work |-> ruled.df,
           rows_enriched |-> enriched.rows_enriched, replacements |-> ruled.replacements]

(***************************************************************************)
(* Leads pipeline, step 6: the pending updates of the Data Store table     *)
(* Hubspot_Leads_Updates merged into the working dataset                   *)
(* (hubspot_leads_file.py).  A pending update is a record: id (the row's   *)
(* primary key), lead, email, payload (one value, or None, per mapped      *)
(* field) and added (added_to_file_date is set).  Row positions are        *)
(* counted from 1; position 0 stands for pos = None.                       *)
(***************************************************************************)
SUPABASE_TO_FILE_COLS ==
  [k \in {"asked_to_be_contacted_on", "asked_contact_for_promos_date",
          "asked_contact_for_promos", "asked_contact_next_year_date",
          "asked_contact_next_year", "asked_for_no_contact", "eligible_for_emails"} |->
     CASE k = "asked_to_be_contacted_on"      -> "Asked To Be Contacted On"
       [] k = "asked_contact_for_promos_date" -> "Asked Contact For Promos Date"
       [] k = "asked_contact_for_promos"      -> "Asked Contact For Promos"
       [] k = "asked_contact_next_year_date"  -> "Asked Contact Next Year Date"
       [] k = "asked_contact_next_year"       -> "Asked Contact Next Year"
       [] k = "asked_for_no_contact"          -> "Asked For No Contact"
       [] k = "eligible_for_emails"           -> "Eligible for Emails"]

DATE_KEYS == {"asked_contact_for_promos_date", "asked_contact_next_year_date"}

\* pd.to_datetime(s, errors="coerce") for the shapes YYYY-MM-DD and
\* MM/DD/YYYY (the shapes of the modelled payloads); NoDate stands for NaT
ToDatetime(s) ==
  IF ~Strptime_Ymd(s).isnull THEN Strptime_Ymd(s) ELSE Strptime_mdY(s)

_fmt_mmddyyyy(val) ==
  LET s == IF val = None THEN <<>> ELSE Strip(Str(val))
  IN IF s = <<>> \/ Lower(s) \in {T_nan, T_null, T_none} THEN <<>>
     ELSE IF ToDatetime(s).isnull THEN <<>>
     ELSE Strftime_mdY(ToDatetime(s))

\* the GET of the pending updates (filter added_to_file_date is null);
\* outcome "error" is a response that is not ok, a timeout or an exception
_fetch_pending_updates_from_supabase(table, outcome) ==
  IF outcome = "ok"
  THEN [data |-> SelectSeq(table, LAMBDA u : ~u.added), err |-> FALSE]
  ELSE [data |-> <<>>, err |-> TRUE]

NoKey == [kind |-> "none", int |-> 0, str |-> <<>>]

\* the key under which a text s is looked up: the integer int(s.replace(",", ""))
\* or, when int() raises ValueError, the lower-cased text
KeyOf(s) ==
  LET p == ParseInt(RemoveChar(s, ","))
  IN IF p.ok THEN [kind |-> "int", int |-> p.val, str |-> <<>>]
     ELSE [kind |-> "str", int |-> 0, str |-> Lower(s)]

\* lines 566-578: the key of a row in id_int_pos_map or id_str_pos_map
RowIdKey(raw_id) ==
  IF raw_id = NaN \/ Strip(Str(raw_id)) = <<>> \/ Lower(Strip(Str(raw_id))) = T_nan
  THEN NoKey
  ELSE KeyOf(Strip(Str(raw_id)))

\* lines 580-586: the key of a row in email_pos_map, <<>> when it has none
RowEmailKey(raw) ==
  IF raw = NaN \/ Lower(Strip(Str(raw))) = T_nan THEN <<>> ELSE Lower(Strip(Str(raw)))

\* a position map built by assignment in row order: the last row with the key
LastPos(S) == IF S = {} THEN 0 ELSE CHOOSE i \in S : \A j \in S : j <= i

id_pos(out, key) ==
  IF "Id" \notin Columns(out) \/ key.kind = "none" THEN 0
  ELSE LastPos({i \in 1..Len(out.rows) : RowIdKey(out.rows[i]["Id"]) = key})

email_pos(out, em) ==
  IF "Email" \notin Columns(out) \/ em = <<>> THEN 0
  ELSE LastPos({i \in 1..Len(out.rows) : RowEmailKey(out.rows[i]["Email"]) = em})

\* lines 592-603: the key of the update's lead value
LeadKey(upd) ==
  IF upd.lead = None \/ Strip(Str(upd.lead)) = <<>> THEN NoKey
  ELSE KeyOf(Strip(Str(upd.lead)))

\* line 605: norm_low(upd.get("email", "") or "")
EmailVal(upd) ==
  IF upd.email = None \/ upd.email = <<>> THEN <<>> ELSE Lower(Strip(Str(upd.email)))

\* mutation of the matching policy: the email is looked up first
EmailFirst(by_id, by_email) == IF by_email # 0 THEN by_email ELSE by_id

\* lines 604-607: the email is looked up only when the identifier gave no position
IdFirst(by_id, by_email) == IF by_id # 0 THEN by_id ELSE by_email

\* lines 591-607: the position of the Record the update is applied to
MatchPos(out, upd) ==
  IdFirst(id_pos(out, LeadKey(upd)), email_pos(out, EmailVal(upd)))

\* the mapped fields that the update carries with a value
WrittenKeys(upd) == {k \in DOMAIN SUPABASE_TO_FILE_COLS : upd.payload[k] # None}

\* mutation of the write: every mapped field is written, null or not
WriteAllFields(upd, k) == TRUE

\* lines 616-620: a field that is absent or null is skipped
WritesField(upd, k) == upd.payload[k] # None

\* lines 615-625: the cells of row pos written from the update
WriteFields(out, upd, pos) ==
  [out EXCEPT !.rows[pos] =
     [c \in DOMAIN out.rows[pos] |->
        LET ks == {k \in DOMAIN SUPABASE_TO_FILE_COLS :
                     SUPABASE_TO_FILE_COLS[k] = c /\ WritesField(upd, k)}
        IN IF ks = {} THEN out.rows[pos][c]
           ELSE LET k == CHOOSE k \in ks : TRUE
                IN IF k \in DATE_KEYS THEN _fmt_mmddyyyy(upd.payload[k])
                   ELSE upd.payload[k]]]

\* out.columns.get_loc(file_col) raises KeyError for a column that is not there
WriteRaises(out, upd) ==
  \E k \in DOMAIN SUPABASE_TO_FILE_COLS :
    WritesField(upd, k) /\ SUPABASE_TO_FILE_COLS[k] \notin Columns(out)

\* mutation of the bookkeeping: the id of every fetched update is recorded
RecordsAlways(pos) == TRUE

\* lines 609-611, 627-628: only a matched update reaches the append
RecordsId(pos) == pos # 0

\* one iteration of the loop of lines 590-628 for an update matched at pos
\* (0: unmatched); m is the merge so far
MergeOne(m, upd, pos) ==
  [df      |-> IF pos = 0 \/ WriteRaises(m.df, upd) THEN m.df
               ELSE WriteFields(m.df, upd, pos),
   raised  |-> m.raised \/ (pos # 0 /\ WriteRaises(m.df, upd)),
   stats   |-> [pending       |-> m.stats.pending,
                matched_rows  |-> m.stats.matched_rows + (IF pos # 0 THEN 1 ELSE 0),
                cells_written |-> m.stats.cells_written
                                    + (IF pos # 0 THEN Cardinality(WrittenKeys(upd)) ELSE 0),
                unmatched     |-> m.stats.unmatched + (IF pos = 0 THEN 1 ELSE 0)],
   processed_update_ids |->
               IF RecordsId(pos) THEN Append(m.processed_update_ids, upd.id)
               ELSE m.processed_update_ids,
   matched |-> Append(m.matched, pos),
   events  |-> m.events
                 \o (IF pos # 0 THEN <<<<"applied", upd.id>>>> ELSE <<>>)
                 \o (IF RecordsId(pos) THEN <<<<"recorded", upd.id>>>> ELSE <<>>)]

\* the loop over the fetched updates; the position maps were built from df
\* before the loop (lines 556-586)
RECURSIVE MergeAll(_, _, _, _)
MergeAll(m, df, updates, k) ==
  IF k > Len(updates) \/ m.raised THEN m
  ELSE MergeAll(MergeOne(m, updates[k], MatchPos(df, updates[k])), df, updates, k + 1)

\* apply_supabase_pending_updates on the answer of the fetch; matched holds
\* the position each fetched update was applied at, raised an exception, and
\* events what was done with each update, in the order of the code
apply_supabase_pending_updates(df, fetch) ==
  MergeAll([df |-> df, raised |-> FALSE,
            stats |-> [pending |-> Len(fetch.data), matched_rows |-> 0,
                       cells_written |-> 0, unmatched |-> 0],
            processed_update_ids |-> <<>>, matched |-> <<>>,
            events |-> [k \in 1..Len(fetch.data) |-> <<"fetched", fetch.data[k].id>>]],
           df, fetch.data, 1)

(***************************************************************************)
(* Leads pipeline, step 7: the overlay of the stored Google Earth file     *)
(***************************************************************************)
OVERLAY_COLS == BEFORE_ZIPCODE

\* _load_google_earth_latest_df with its download: outcome "error" is a
\* storage response that is neither ok nor 404, a timeout or an exception
LoadOverlaySource(object, outcome) ==
  IF outcome = "error"
  THEN [status |-> "error", df |-> <<>>, raw_rows |-> 0]
  ELSE _load_google_earth_latest_df(object)

\* lines 799-803: out_idx, the last row whose normalized Id is rid (0: none)
out_idx(df, rid) ==
  IF rid = <<>> THEN 0
  ELSE LastPos({i \in 1..Len(df.rows) : _norm_id(df.rows[i]["Id"]) = rid})

\* lines 805-807: a missing overlay column is appended holding ""
RECURSIVE AddOverlayColumns(_, _)
AddOverlayColumns(df, k) ==
  IF k > Len(OVERLAY_COLS) THEN df
  ELSE AddOverlayColumns(IF OVERLAY_COLS[k] \in Columns(df) THEN df
                         ELSE AppendColumn(df, OVERLAY_COLS[k], <<>>), k + 1)

\* mutation of the overlay write: the source value is written whatever it is
OverlayAlways(cur, v, valid) == v

\* lines 818-831 for one field: the source value v is written when it is
\* valid and the stripped current cell differs from it
OverlayCell(cur, v, valid) ==
  IF valid /\ Strip(Str(cur)) # Strip(Str(v)) THEN Strip(Str(v)) ELSE cur

\* lines 811-832: one row of the overlay source applied at row pos
OverlayRow(out, row, pos) ==
  IF pos = 0 THEN out
  ELSE [out EXCEPT !.rows[pos] =
          [c \in DOMAIN out.rows[pos] |->
             CASE c = "Has Fence on Google Earth" ->
                    OverlayCell(out.rows[pos][c], row.fence,
                                Strip(Str(row.fence)) \in {T_Yes, T_No})
               [] c = "Google Earth Last Picture At" ->
                    OverlayCell(out.rows[pos][c], row.pic, Strip(Str(row.pic)) # <<>>)
               [] c = "Google Earth Last Checked At" ->
                    OverlayCell(out.rows[pos][c], row.chk, Strip(Str(row.chk)) # <<>>)
               [] OTHER -> out.rows[pos][c]]]

RECURSIVE OverlayAll(_, _, _, _)
OverlayAll(out, df, ge_df, k) ==
  IF k > Len(ge_df) THEN out
  ELSE OverlayAll(OverlayRow(out, ge_df[k], out_idx(df, _norm_id(ge_df[k].Id))),
                  df, ge_df, k + 1)

\* mutation of the Overlay Applier: the guards of lines 791-796 are missing
OverlayUnguarded(df, ge) == OverlayAll(AddOverlayColumns(df, 1), df, ge.df, 1)

\* overlay_google_earth_latest on the answer ge of _load_google_earth_latest_df
overlay_google_earth_latest(df, ge) ==
  IF ge.status = "error" THEN df
  ELSE IF ge.status = "none" \/ Len(ge.df) = 0 \/ "Id" \notin Columns(df) THEN df
  ELSE OverlayAll(AddOverlayColumns(df, 1), df, ge.df, 1)

\* df_work.fillna("") of line 1023
FillNaFrame(df) ==
  [df EXCEPT !.rows = [i \in 1..Len(df.rows) |->
                         [c \in DOMAIN df.rows[i] |-> FillNa(df.rows[i][c])]]]

(***************************************************************************)
(* The acknowledgement of the processed updates                            *)
(***************************************************************************)
\* mutation of the acknowledgement: every pending update is marked
MarkAllPending(table, update_ids) == [k \in 1..Len(table) |-> [table[k] EXCEPT !.added = TRUE]]

\* the PATCH of mark_lead_updates_as_added: the rows whose id is in
\* update_ids get added_to_file_date and added_to_file set
MarkAdded(table, update_ids) ==
  [k \in 1..Len(table) |->
     IF table[k].id \in Range(update_ids) THEN [table[k] EXCEPT !.added = TRUE]
     ELSE table[k]]

(***************************************************************************)
(* Bounded inputs                                                          *)
(***************************************************************************)
\* most rows of a modelled spreadsheet
MaxRows == 2

T_sp      == <<" ">>
T_42      == <<"4", "2">>
T_42sp    == <<"4", "2", " ">>
T_1024    == <<"1", "0", "2", "4">>
T_1c024   == <<"1", ",", "0", "2", "4">>
T_Y       == <<"Y">>
T_no      == <<"n", "o">>
T_maybe   == <<"m", "a", "y", "b", "e">>
T_0       == <<"0">>
T_1       == <<"1">>
T_60000   == <<"6", "0", "0", "0", "0">>
T_60001   == <<"6", "0", "0", "0", "1">>
T_45292   == <<"4", "5", "2", "9", "2">>
T_us2024  == <<"0", "1", "/", "0", "1", "/", "2", "0", "2", "4">>
T_iso2024 == <<"2", "0", "2", "4", "-", "0", "1", "-", "0", "1">>
T_x       == <<"x">>

IdCells    == {NaN, T_sp, T_42, T_42sp, T_1024, T_1c024, T_none}
KeyIds     == {T_1024}
FenceCells == {T_Y, T_no, T_maybe, NaN}
DateCells  == {NaN, T_0, T_1, T_60000, T_60001, T_45292, T_us2024, T_iso2024, T_x}
CheckedCells == {T_60001, T_x}

Row(id, fence, pic, chk, note) ==
  [Id |-> id, fence |-> fence, pic |-> pic, chk |-> chk, note |-> note]

\* rows of the Normalizer inputs: every Id cell on a base row, every fence
\* cell and every picture cell on the key id, and some checked cells
NormRows ==
  {Row(i, T_Y, T_45292, NaN, NaN) : i \in IdCells}
    \cup {Row(i, f, T_45292, NaN, NaN) : i \in KeyIds, f \in FenceCells}
    \cup {Row(i, T_Y, d, NaN, NaN) : i \in KeyIds, d \in DateCells}
    \cup {Row(i, T_Y, T_45292, d, NaN) : i \in KeyIds, d \in CheckedCells}

\* rows of the files compared by the Baseline Differ: a base row, rows that
\* differ from it in one cell, another id and an empty id
DiffRows ==
  {Row(T_1024, T_Y,  T_45292,  NaN, NaN),
   Row(T_1024, T_no, T_45292,  NaN, NaN),
   Row(T_1024, T_Y,  T_us2024, NaN, NaN),
   Row(T_1024, T_Y,  NaN,      NaN, NaN),
   Row(T_1024, T_Y,  T_45292,  T_1, NaN),
   Row(T_1024, T_Y,  T_45292,  NaN, T_x),
   Row(T_42,   T_Y,  T_45292,  NaN, NaN),
   Row(T_sp,   T_Y,  T_45292,  NaN, NaN)}

\* most rows of the baseline handed to the Baseline Differ
MaxBaseRows == 1

\* rows of the files uploaded on the File Control page
FlowRows ==
  {Row(T_1024, T_Y,  T_45292, NaN, NaN),
   Row(T_1024, T_no, T_45292, NaN, NaN),
   Row(T_42,   T_Y,  T_45292, NaN, NaN)}

AllCols == REQ_COLS \cup {"Notes"}

SeqsUpTo(S, n) == UNION {[1..k -> S] : k \in 0..n}

\* files that lack a required column
BadFiles == {File(AllCols \ {c}, <<>>) : c \in REQ_COLS}

\* rows of a file with more invalid picture dates than the sample limit
ManyRows == 21

\* a file of ManyRows Records, all with an invalid picture date, the first
\* two with an invalid checked date
ManyInvalidFile ==
  File(AllCols, [i \in 1..ManyRows |->
                   Row(NatToStr(i), T_Y, T_x, IF i <= 2 THEN T_maybe ELSE T_45292, NaN)])

NormFiles == {File(AllCols, rs) : rs \in SeqsUpTo(NormRows, MaxRows)} \cup BadFiles
               \cup {ManyInvalidFile}

FlowFiles == {File(AllCols, rs) : rs \in SeqsUpTo(FlowRows, MaxRows)}
               \cup {File(AllCols \ {"Id"}, <<>>)}

DiffNewFiles == {File(AllCols, rs) : rs \in SeqsUpTo(DiffRows, MaxRows)}
                  \cup {File(AllCols \ {"Id"}, <<>>)}

DiffBaseFiles == {File(AllCols, rs) : rs \in SeqsUpTo(DiffRows, MaxBaseRows)}
                   \cup {NoObject}

(***************************************************************************)
(* State                                                                   *)
(***************************************************************************)
VARIABLES
  store,         \* File Store object google_earth_files/current/latest.xlsx
  uploaded,      \* the file in the page's uploader (NoObject: none)
  auto_replace,  \* the "Auto-replace baseline" checkbox
  calls,         \* File Store calls of the last run of show_google_form, in order
  result,        \* what the last run of show_google_form computed and displayed
  snapshot,      \* last result of normalize_excel_bytes on the stored file
  ge_latest,     \* last result of _load_google_earth_latest_df
  leads,         \* leads pipeline: proc_step, working dataset, previous file
  lead_updates,  \* Data Store table Hubspot_Leads_Updates
  events,        \* what the leads pipeline did to the pending updates, in order
  cell,          \* a cell value and what the cell normalizers made of it
  http           \* an external call of the leads pipeline and the responses to it

vars == <<store, uploaded, auto_replace, calls, result, snapshot, ge_latest, leads,
         lead_updates, events, cell, http>>

\* no external call is being made
NoHttp == [call |-> "none", statuses |-> <<>>, result |-> "idle"]

\* no cell was normalized
NoCell == [fn |-> "none", raw |-> None, once |-> None, val |-> None, applied |-> 0, w |-> 4]

\* no comparison was made
NoFlow ==
  [err |-> TRUE, summary |-> EmptySummary, replace_baseline |-> FALSE,
   new_metrics |-> EmptyMetrics, baseline_metrics |-> EmptyMetrics,
   invalid_samples |-> EmptySamples, new_df |-> <<>>, base_df |-> <<>>]

NoResult == [status |-> "idle", flow |-> NoFlow, button |-> FALSE]

NoSnapshot ==
  [done |-> FALSE, collect |-> FALSE,
   out  |-> [err |-> TRUE, missing |-> REQ_COLS, df |-> <<>>,
             metrics |-> EmptyMetrics, samples |-> EmptySamples]]

NoLatest == [status |-> "idle", df |-> <<>>, raw_rows |-> 0]

\* the leads pipeline is not running (proc_step = 0)
\* the statistics of a run of apply_supabase_pending_updates that found nothing
NoStats == [pending |-> 0, matched_rows |-> 0, cells_written |-> 0, unmatched |-> 0]

\* The session state of the leads page when the pipeline is not running
\* (proc_step = 0; a frame that is None is NoFrame, proc_sb_stats that is None
\* is NoStats), with what the last step run worked on: before is the working
\* dataset it started from (line 979), fetch and matched the pending updates
\* it fetched and the row each was applied at, ge the overlay source it
\* loaded, overlaid the dataset overlay_google_earth_latest returned, and
\* error the failure it displayed (st.error)
NoLeads == [step |-> 0, df_work |-> NoFrame, prev_df |-> NoFrame, enriched |-> NoFrame,
            rows_enriched |-> 0, replacements |-> 0, before |-> NoFrame,
            proc_sb_stats |-> NoStats, proc_ids |-> <<>>,
            processed_df_df |-> NoFrame, updates_marked |-> FALSE, final_ready |-> FALSE,
            fetch |-> [data |-> <<>>, err |-> FALSE], matched |-> <<>>,
            ge |-> [status |-> "idle", df |-> <<>>, raw_rows |-> 0],
            overlaid |-> NoFrame, error |-> "none",
            main_file |-> [name |-> "", size |-> 0, df |-> NoFrame],
            prev_file |-> [name |-> "", size |-> 0, df |-> NoFrame],
            last_main_file_sig |-> [name |-> "", size |-> 0],
            last_prev_file_sig |-> [name |-> "", size |-> 0],
            pending_processed_ids |-> <<>>, final_bytes |-> NoFrame, run |-> 0]

(***************************************************************************)
(* The File Control page: one run of show_google_form                      *)
(***************************************************************************)
\* mutation of the replace decision: the upload does not wait for the comparison
UploadsUnconditionally(flow, ar, click) == ar \/ click

\* lines 284-297: the baseline is replaced when changes were detected and
\* auto-replace is on or the replace button was pressed
UploadsBaseline(flow, ar, click) ==
  /\ ~flow.err
  /\ flow.summary.new_records + flow.summary.modified_records # 0
  /\ (ar \/ click)

\* the replace button is displayed (line 293)
ShowsButton(flow, ar) ==
  /\ ~flow.err
  /\ flow.summary.new_records + flow.summary.modified_records # 0
  /\ ~ar

\* One script run with the widget values f (uploader), ar (checkbox) and
\* click (replace button).  A ValueError of run_compare_flow ends the run.
show_google_form(f, ar, click) ==
  \E flow \in {run_compare_flow(f, store)} :
  \E up \in {UploadsBaseline(flow, ar, click)} :
     /\ uploaded' = f
     /\ auto_replace' = ar
     /\ calls' = <<"signed_url">>
                   \o (IF f = NoObject THEN <<>> ELSE <<"download">>)
                   \o (IF f # NoObject /\ up THEN <<"upload">> ELSE <<>>)
     /\ store' = IF f # NoObject /\ up THEN f ELSE store
     /\ result' = IF f = NoObject THEN [status |-> "no_file", flow |-> NoFlow, button |-> FALSE]
                  ELSE IF flow.err THEN [status |-> "schema_error", flow |-> flow, button |-> FALSE]
                  ELSE [status |-> "compared", flow |-> flow,
                        button |-> ShowsButton(flow, ar) /\ ~click]
     /\ UNCHANGED <<snapshot, ge_latest, leads, lead_updates, events, cell, http>>

\* the user puts a file into the uploader, or removes it
UploadFile == \E f \in FlowFiles \cup {NoObject} : show_google_form(f, auto_replace, FALSE)

\* the user toggles the auto-replace checkbox
ToggleAutoReplace == show_google_form(uploaded, ~auto_replace, FALSE)

\* the user presses "Replace baseline with NEW file"
ClickReplace == result.button /\ show_google_form(uploaded, auto_replace, TRUE)

Init ==
  /\ store \in {NoObject, File(AllCols, <<>>)}
  /\ uploaded = NoObject
  /\ auto_replace = TRUE
  /\ calls = <<>>
  /\ result = NoResult
  /\ snapshot = NoSnapshot
  /\ ge_latest = NoLatest
  /\ lead_updates = <<>>
  /\ events = <<>>
  /\ cell = NoCell
  /\ http = NoHttp
  /\ leads = NoLeads

Next == UploadFile \/ ToggleAutoReplace \/ ClickReplace

Spec == Init /\ [][Next]_vars

(***************************************************************************)
(* The stored file read by its two readers: the Normalizer (as             *)
(* run_compare_flow reads the baseline) and the overlay-source loader      *)
(***************************************************************************)
NormalizeStored ==
  /\ \E collect \in BOOLEAN :
       snapshot' = [done |-> TRUE, collect |-> collect,
                    out |-> normalize_excel_bytes(store, collect, max_samples_per_column)]
  /\ UNCHANGED <<store, uploaded, auto_replace, calls, result, ge_latest, leads, lead_updates, events, cell, http>>

LoadLatest ==
  /\ ge_latest' = _load_google_earth_latest_df(store)
  /\ UNCHANGED <<store, uploaded, auto_replace, calls, result, snapshot, leads, lead_updates, events, cell, http>>

InitNorm ==
  /\ store \in NormFiles
  /\ uploaded = NoObject
  /\ auto_replace = TRUE
  /\ calls = <<>>
  /\ result = NoResult
  /\ snapshot = NoSnapshot
  /\ ge_latest = NoLatest
  /\ lead_updates = <<>>
  /\ events = <<>>
  /\ cell = NoCell
  /\ http = NoHttp
  /\ leads = NoLeads

NextNorm == NormalizeStored \/ LoadLatest

SpecNorm == InitNorm /\ [][NextNorm]_vars

(***************************************************************************)
(* The Baseline Differ applied to a new file and a stored baseline         *)
(***************************************************************************)
\* run_compare_flow as line 268 calls it, after the download of the baseline
CompareUploaded ==
  /\ result.status = "idle"
  /\ \E flow \in {run_compare_flow(uploaded, store)} :
       result' = [status |-> IF flow.err THEN "schema_error" ELSE "compared",
                  flow |-> flow, button |-> ShowsButton(flow, auto_replace)]
  /\ UNCHANGED <<store, uploaded, auto_replace, calls, snapshot, ge_latest, leads, lead_updates, events, cell, http>>

InitDiff ==
  /\ store \in DiffBaseFiles
  /\ uploaded \in DiffNewFiles
  /\ auto_replace = TRUE
  /\ calls = <<>>
  /\ result = NoResult
  /\ snapshot = NoSnapshot
  /\ ge_latest = NoLatest
  /\ lead_updates = <<>>
  /\ events = <<>>
  /\ cell = NoCell
  /\ http = NoHttp
  /\ leads = NoLeads

NextDiff == CompareUploaded

SpecDiff == InitDiff /\ [][NextDiff]_vars

(***************************************************************************)
(* Step 5 of the leads pipeline on a working dataset and a previous file   *)
(***************************************************************************)
\* most rows of the working dataset, and of the previous file
MaxLeadRows == 1

MaxPrevRows == 2

T_7    == <<"7">>
T_8    == <<"8">>
T_zip  == <<"1", "2", "3", "4", "5">>
T_open == <<"O", "p", "e", "n">>
T_d2   == <<"0", "2", "/", "0", "2", "/", "2", "0", "2", "4">>

LeadCols ==
  {"Id", "ZipCode", "LeadStatus", "Has Fence on Google Earth",
   "Asked Contact For Promos", "Asked To Be Contacted On"}

\* a row of a leads file with the columns of header h
LeadRow(h, id, promos, on, fence) ==
  [c \in Range(h) |->
     CASE c = "Id" -> id
       [] c = "ZipCode" -> T_zip
       [] c = "LeadStatus" -> T_open
       [] c = "Has Fence on Google Earth" -> fence
       [] c = "Asked Contact For Promos" -> promos
       [] c = "Asked To Be Contacted On" -> on]

\* headers of the working dataset: both anchor columns, no post-group
\* column, no anchor column, no Id column
CurHeaders ==
  {<<"Id", "ZipCode", "LeadStatus", "Asked Contact For Promos", "Asked To Be Contacted On">>,
   <<"Id", "LeadStatus">>,
   <<"Id", "Asked Contact For Promos", "Asked To Be Contacted On">>,
   <<"LeadStatus", "Asked Contact For Promos">>}

\* (promos, contacted-on) cells of the working dataset
CurCells ==
  {<<<<>>, <<>>>>, <<T_No, <<>>>>, <<T_Yes, T_us2024>>, <<NaN, <<>>>>, <<T_No, T_us2024>>}

CurFrames ==
  UNION {{Frame(h, rs) :
            rs \in SeqsUpTo({LeadRow(h, T_7, p[1], p[2], <<>>) : p \in CurCells}, MaxLeadRows)} :
         h \in CurHeaders}

\* headers of the previous file: post-group columns, a pre-group column, no Id
PrevHeaders ==
  {<<"Id", "Asked Contact For Promos", "Asked To Be Contacted On">>,
   <<"Id", "Has Fence on Google Earth">>,
   <<"Asked Contact For Promos">>}

\* (id, promos, contacted-on, fence) cells of the previous file
PrevCells ==
  {<<T_7, T_Yes, T_d2, T_Yes>>, <<T_7, T_No, NaN, NaN>>,
   <<T_7, NaN, T_d2, T_No>>, <<T_8, T_Yes, T_d2, T_Yes>>}

PrevFrames ==
  {NoFrame} \cup
  UNION {{Frame(h, rs) :
            rs \in SeqsUpTo({LeadRow(h, p[1], p[2], p[3], p[4]) : p \in PrevCells}, MaxPrevRows)} :
         h \in PrevHeaders}

\* the run of the page with proc_step = 5: on success the working dataset is
\* stored and proc_step becomes 6, on an exception proc_step is reset to 0
Step5 ==
  /\ leads.step = 5
  /\ \E r \in {Step5Result(leads.df_work, leads.prev_df)} :
       leads' = [leads EXCEPT !.step          = IF r.failed THEN 0 ELSE 6,
                              !.df_work       = r.df_work,
                              !.enriched      = r.enriched,
                              !.rows_enriched = r.rows_enriched,
                              !.replacements  = r.replacements,
                              !.before        = leads.df_work]
  /\ UNCHANGED <<store, uploaded, auto_replace, calls, result, snapshot, ge_latest, lead_updates, events, cell, http>>

InitLeads ==
  /\ store = NoObject
  /\ uploaded = NoObject
  /\ auto_replace = TRUE
  /\ calls = <<>>
  /\ result = NoResult
  /\ snapshot = NoSnapshot
  /\ ge_latest = NoLatest
  /\ lead_updates = <<>>
  /\ events = <<>>
  /\ cell = NoCell
  /\ http = NoHttp
  /\ leads \in {[NoLeads EXCEPT !.step = 5, !.df_work = c, !.prev_df = p] :
                   c \in CurFrames, p \in PrevFrames}

NextLeads == Step5

SpecLeads == InitLeads /\ [][NextLeads]_vars

(***************************************************************************)
(* Steps 6 and 7 of the leads pipeline and the "Generate Final File"       *)
(* button, on a working dataset as step 5 leaves it                        *)
(***************************************************************************)
\* most rows of the working dataset, and of the table of pending updates
MaxPipeRows == 2

MaxUpdates == 2

T_9     == <<"9">>
T_7sp   == <<"7", " ">>
T_ad    == <<"a", "@", "d">>
T_Ad_sp == <<"A", "@", "d", " ">>
T_ed    == <<"e", "@", "d">>
T_sp_ED == <<" ", "E", "@", "D">>
T_u1    == <<"u", "1">>
T_u2    == <<"u", "2">>
T_u3    == <<"u", "3">>
T_1024d0 == <<"1", "0", "2", "4", ".", "0">>

\* a row of a main file with the columns of header h
PipeRow(h, id, email, fence, pic) ==
  [c \in Range(h) |->
     CASE c = "Id" -> id
       [] c = "Email" -> email
       [] c = "ZipCode" -> T_zip
       [] c = "LeadStatus" -> T_open
       [] c = "Has Fence on Google Earth" -> fence
       [] c = "Google Earth Last Picture At" -> pic]

\* (id, email, fence, picture date) cells of the main file: two leads and a
\* second row for the first lead
PipeCells ==
  {<<T_7, T_ad, T_No, T_us2024>>, <<T_8, T_sp_ED, <<>>, NaN>>, <<T_7sp, NaN, T_Yes, T_d2>>}

\* headers of the main file: with the overlay columns, without them, without Id
PipeHeaders ==
  {<<"Id", "Email", "Has Fence on Google Earth", "Google Earth Last Picture At",
     "ZipCode", "LeadStatus">>,
   <<"Id", "LeadStatus">>,
   <<"Email", "LeadStatus">>}

\* the working dataset after step 5 without a previous file
AfterStep5(h, rs) == Step5Result(Frame(h, rs), NoFrame).df_work

PipeFrames ==
  UNION {{AfterStep5(h, rs) :
            rs \in SeqsUpTo({PipeRow(h, p[1], p[2], p[3], p[4]) : p \in PipeCells}, MaxPipeRows)} :
         h \in PipeHeaders}

\* working datasets for the merge of the pending updates: two leads, one lead
\* in two rows, no Email column, no Id column, an Id written with a thousands
\* separator, an Id written with a decimal point
MergeFrames ==
  {AfterStep5(<<"Id", "Email", "ZipCode", "LeadStatus">>,
              <<[Id |-> T_7, Email |-> T_ad, ZipCode |-> T_zip, LeadStatus |-> T_open],
                [Id |-> T_8, Email |-> T_sp_ED, ZipCode |-> T_zip, LeadStatus |-> T_open]>>),
   AfterStep5(<<"Id", "Email", "ZipCode", "LeadStatus">>,
              <<[Id |-> T_7, Email |-> T_ad, ZipCode |-> T_zip, LeadStatus |-> T_open],
                [Id |-> T_7sp, Email |-> T_ed, ZipCode |-> T_zip, LeadStatus |-> T_open]>>),
   AfterStep5(<<"Id", "LeadStatus">>,
              <<[Id |-> T_7, LeadStatus |-> T_open], [Id |-> T_8, LeadStatus |-> T_open]>>),
   AfterStep5(<<"Email", "LeadStatus">>,
              <<[Email |-> T_ad, LeadStatus |-> T_open],
                [Email |-> T_sp_ED, LeadStatus |-> T_open]>>),
   AfterStep5(<<"Id", "LeadStatus">>,
              <<[Id |-> T_1c024, LeadStatus |-> T_open], [Id |-> T_8, LeadStatus |-> T_open]>>),
   AfterStep5(<<"Id", "LeadStatus">>,
              <<[Id |-> T_1024d0, LeadStatus |-> T_open], [Id |-> T_8, LeadStatus |-> T_open]>>)}

\* payloads: one flag, a date with its flag, nothing
Payload(nc, pd, p) ==
  [k \in DOMAIN SUPABASE_TO_FILE_COLS |->
     CASE k = "asked_for_no_contact" -> nc
       [] k = "asked_contact_for_promos_date" -> pd
       [] k = "asked_contact_for_promos" -> p
       [] OTHER -> None]

\* (lead, email, payload, added) of the rows of the table
UpdateCells ==
  {<<T_7,  T_ed,    Payload(T_Yes, None, None), FALSE>>,
   <<None, T_Ad_sp, Payload(None, T_iso2024, T_Yes), FALSE>>,
   <<T_9,  T_ed,    Payload(T_Yes, None, None), FALSE>>,
   <<T_9,  None,    Payload(None, T_iso2024, T_Yes), FALSE>>,
   <<T_8,  None,    Payload(None, None, None), FALSE>>,
   <<T_7,  None,    Payload(T_Yes, None, None), TRUE>>,
   <<T_1024, None,  Payload(T_Yes, None, None), FALSE>>}

UpdateId(k) == CASE k = 1 -> T_u1 [] k = 2 -> T_u2 [] OTHER -> T_u3

\* the tables: the k-th row has the k-th id
UpdateTables ==
  {[k \in DOMAIN t |-> [id |-> UpdateId(k), lead |-> t[k][1], email |-> t[k][2],
                        payload |-> t[k][3], added |-> t[k][4]]] :
     t \in SeqsUpTo(UpdateCells, MaxUpdates)}

\* the stored Google Earth file: absent, without its Id column, without
\* rows, with a row for lead 7 (all values valid; no value valid), with a row
\* for a lead that is not in the main file
OverlayStores ==
  {NoObject,
   File(AllCols \ {"Id"}, <<>>),
   File(AllCols, <<>>),
   File(AllCols, <<Row(T_7, T_Y, T_45292, T_iso2024, NaN)>>),
   File(AllCols, <<Row(T_7, T_maybe, T_x, NaN, NaN)>>),
   File(AllCols, <<Row(T_9, T_Y, T_45292, T_iso2024, NaN)>>)}

\* the run of the page with proc_step = 6: the pending updates are fetched
\* and merged; the fetch answers or fails.  An exception resets proc_step.
Step6 ==
  /\ leads.step = 6
  /\ \E outcome \in {"ok", "error"} :
     \E fetch \in {_fetch_pending_updates_from_supabase(lead_updates, outcome)} :
     \E m \in {apply_supabase_pending_updates(leads.df_work, fetch)} :
       /\ leads' = IF m.raised
                   THEN [leads EXCEPT !.step = 0, !.error = "processing",
                                      !.before = leads.df_work, !.fetch = fetch]
                   ELSE [leads EXCEPT !.step = 7,
                                      !.df_work = m.df,
                                      !.proc_sb_stats = m.stats,
                                      !.proc_ids = m.processed_update_ids,
                                      !.before = leads.df_work,
                                      !.fetch = fetch,
                                      !.matched = m.matched]
       /\ events' = events \o m.events
  /\ UNCHANGED <<store, uploaded, auto_replace, calls, result, snapshot, ge_latest, lead_updates, cell, http>>

\* the run of the page with proc_step = 7: the overlay source is downloaded
\* (it answers, or the download fails), overlaid, and the processed dataset
\* is published
Step7 ==
  /\ leads.step = 7
  /\ \E outcome \in {"ok", "error"} :
     \E ge \in {LoadOverlaySource(store, outcome)} :
     \E out \in {overlay_google_earth_latest(leads.df_work, ge)} :
       leads' = [leads EXCEPT !.step = 0,
                              !.processed_df_df = FillNaFrame(out),
                              !.updates_marked = FALSE,
                              !.final_ready = FALSE,
                              !.before = leads.df_work,
                              !.ge = [ge EXCEPT !.status =
                                        IF outcome = "error" THEN "download_error" ELSE @],
                              !.overlaid = out]
  /\ UNCHANGED <<store, uploaded, auto_replace, calls, result, snapshot, ge_latest,
                 lead_updates, events, cell, http>>

\* mutation of the failed acknowledgement: the run goes on to the build
GoesOnAfterMarkError(marks, outcome) == FALSE

\* lines 1066-1069: st.stop() when the acknowledgement failed
StopsOnMarkError(marks, outcome) == marks /\ outcome = "error"

\* the button "Generate Final File" (lines 1050-1094): the processed ids are
\* acknowledged in the Data Store (the PATCH answers or fails), then the
\* final files are built (the build succeeds or raises)
GenerateFinal ==
  /\ leads.step = 0
  /\ leads.processed_df_df # NoFrame
  /\ ~leads.final_ready
  /\ \E outcome \in {"ok", "error"}, build \in {"ok", "error"} :
     \E ids \in {IF leads.proc_ids # <<>> THEN leads.proc_ids
                 ELSE leads.pending_processed_ids} :
     \E marks \in {~leads.updates_marked /\ ids # <<>>} :
       IF StopsOnMarkError(marks, outcome)
       THEN /\ leads' = [leads EXCEPT !.error = "mark"]
            /\ UNCHANGED <<lead_updates, events>>
       ELSE /\ lead_updates' = IF marks /\ outcome = "ok" THEN MarkAdded(lead_updates, ids)
                                ELSE lead_updates
            /\ events' = IF marks /\ outcome = "ok"
                          THEN events \o [k \in 1..Len(ids) |-> <<"marked", ids[k]>>]
                          ELSE events
            /\ leads' = [leads EXCEPT
                           !.updates_marked = IF marks /\ outcome = "error" THEN @ ELSE TRUE,
                           !.pending_processed_ids = IF marks /\ outcome = "ok" THEN <<>> ELSE @,
                           !.final_ready = (build = "ok"),
                           !.final_bytes = IF build = "ok" THEN leads.processed_df_df
                                           ELSE NoFrame,
                           !.error = IF build = "ok" THEN "none" ELSE "build"]
  /\ UNCHANGED <<store, uploaded, auto_replace, calls, result, snapshot, ge_latest, cell, http>>

InitPipe ==
  /\ uploaded = NoObject
  /\ auto_replace = TRUE
  /\ calls = <<>>
  /\ result = NoResult
  /\ snapshot = NoSnapshot
  /\ ge_latest = NoLatest
  /\ events = <<>>
  /\ cell = NoCell
  /\ http = NoHttp
  /\ \/ /\ leads \in {[NoLeads EXCEPT !.step = 6, !.df_work = d] : d \in MergeFrames}
        /\ lead_updates \in UpdateTables
        /\ store = NoObject
     \/ /\ leads \in {[NoLeads EXCEPT !.step = 6, !.df_work = d] : d \in PipeFrames}
        /\ lead_updates = <<>>
        /\ store \in OverlayStores

NextPipe == Step6 \/ Step7 \/ GenerateFinal

SpecPipe == InitPipe /\ [][NextPipe]_vars

(***************************************************************************)
(* The cell normalizers applied to their own results.  A cell is drawn,    *)
(* one normalizer is applied to it, and then applied again to what it      *)
(* returned, as happens when a normalized dataset is normalized again.     *)
(***************************************************************************)
\* number of times a normalizer is applied to a cell
MaxApply == 2

T_None    == <<"N", "o", "n", "e">>
T_nullsp  == <<" ", "n", "u", "l", "l", " ">>
T_42d0    == <<"4", "2", ".", "0">>
T_1d5     == <<"1", ".", "5">>
T_007     == <<"0", "0", "7">>
T_m5      == <<"-", "5">>
T_p5      == <<"+", "5">>
T_4sp2    == <<"4", " ", "2">>
T_true    == <<"t", "r", "u", "e">>
T_false   == <<"f", "a", "l", "s", "e">>
T_YESsp   == <<" ", "Y", "E", "S", " ">>
T_dash    == <<"-">>
T_us999   == <<"0", "1", "/", "0", "1", "/", "0", "9", "9", "9">>
T_iso999  == <<"0", "9", "9", "9", "-", "0", "1", "-", "0", "1">>
T_us15    == <<"1", "/", "5", "/", "2", "0", "2", "4">>
T_feb30   == <<"0", "2", "/", "3", "0", "/", "2", "0", "2", "4">>
T_45292d0 == <<"4", "5", "2", "9", "2", ".", "0">>

IdemIdCells ==
  IdCells \cup {None, T_None, T_nullsp, T_0, T_42d0, T_1d5, T_007, T_m5, T_p5, T_4sp2,
                T_x, T_ad}

IdemYesNoCells ==
  FenceCells \cup {None, T_Yes, T_No, T_1, T_0, T_true, T_false, T_YESsp, T_nan, T_x, T_sp}

IdemDateCells ==
  DateCells \cup {None, T_dash, T_sp, T_us999, T_iso999, T_us15, T_feb30, T_45292d0, T_m5,
                  T_d2}

\* the value a returned date has for the next call: None, or str(val) of
\* the datetime.date
DateAsValue(d) == IF d.isnull THEN None ELSE Isoformat(d)

\* the normalizer returned out for cell.val
Applied(out) ==
  /\ cell.applied < MaxApply
  /\ cell' = [cell EXCEPT !.val = out,
                          !.once = IF cell.applied = 0 THEN out ELSE @,
                          !.applied = @ + 1]
  /\ UNCHANGED <<store, uploaded, auto_replace, calls, result, snapshot, ge_latest, leads,
                 lead_updates, events, http>>

ApplyNormId == cell.fn = "_norm_id" /\ Applied(_norm_id(cell.val))

ApplyNormalizeYesNo == cell.fn = "_normalize_yes_no" /\ Applied(_normalize_yes_no(cell.val))

ApplyNormalizeYesNoGe == cell.fn = "_normalize_yes_no_ge" /\ Applied(_normalize_yes_no_ge(cell.val))

ApplyParseUsDate == cell.fn = "_parse_us_date" /\ Applied(DateAsValue(_parse_us_date(cell.val)))

ApplyParseToMmddyyyyGe == cell.fn = "_parse_to_mmddyyyy_ge" /\ Applied(ParseDateGe(cell.val, cell.w))

\* the identifier of the Normalizer: astype(str).str.strip()
ApplyStripId == cell.fn = "strip" /\ Applied(Strip(Str(cell.val)))

Drawn(fn, v, w) == [fn |-> fn, raw |-> v, once |-> None, val |-> v, applied |-> 0, w |-> w]

InitIdem ==
  /\ store = NoObject
  /\ uploaded = NoObject
  /\ auto_replace = TRUE
  /\ calls = <<>>
  /\ result = NoResult
  /\ snapshot = NoSnapshot
  /\ ge_latest = NoLatest
  /\ lead_updates = <<>>
  /\ events = <<>>
  /\ leads = NoLeads
  /\ http = NoHttp
  /\ \/ cell \in {Drawn(fn, v, 4) : fn \in {"_norm_id", "strip"}, v \in IdemIdCells}
     \/ cell \in {Drawn(fn, v, 4) : fn \in {"_normalize_yes_no", "_normalize_yes_no_ge"},
                                    v \in IdemYesNoCells}
     \/ cell \in {Drawn("_parse_us_date", v, 4) : v \in IdemDateCells}
     \/ cell \in {Drawn("_parse_to_mmddyyyy_ge", v, w) : v \in IdemDateCells,
                                                         w \in StrftimeYearWidths}

NextIdem ==
  \/ ApplyNormId
  \/ ApplyStripId
  \/ ApplyNormalizeYesNo
  \/ ApplyNormalizeYesNoGe
  \/ ApplyParseUsDate
  \/ ApplyParseToMmddyyyyGe

SpecIdem == InitIdem /\ [][NextIdem]_vars

(***************************************************************************)
(* Leads pipeline, steps 1 to 4                                            *)
(***************************************************************************)
DATETIME_COLS ==
  <<"LastActionAt", "LastEmailedAt", "ClosingDate", "ClosedLostAt", "CancelledAt",
    "EstimateCreatedAt", "EstimateModifiedAt", "CreatedAt", "ModifiedAt">>

DATE_ONLY_COLS ==
  <<"CalendarEventAt", "CalendarEventEnd", "FollowUpDate", "ClosedWonAt",
    "Google Earth Last Picture At", "Google Earth Last Checked At">>

PHONE_COLS ==
  <<"PreferredContactPhoneNumber", "WorkPhoneNumber", "CellPhoneNumber", "SmsPhoneNumber">>

\* ensure_datetime_series on one cell: the text without "Z", parsed as a
\* date (texts with a time of day are not among the modelled cells)
ensure_datetime_series(v) == ToDatetime(RemoveChar(Strip(Str(v)), "Z"))

\* dt.notna().mean() >= threshold, for the threshold 0.6
MajorityDateLike(df, c) ==
  /\ Len(df.rows) > 0
  /\ 5 * Cardinality({i \in 1..Len(df.rows) : ~ensure_datetime_series(df.rows[i][c]).isnull})
       >= 3 * Len(df.rows)

\* step 1: in a column where most cells are dates, the other cells become ""
clean_majority_date_like_columns(df) ==
  [df EXCEPT !.rows = [i \in 1..Len(df.rows) |->
     [c \in DOMAIN df.rows[i] |->
        IF /\ MajorityDateLike(df, c)
           /\ ensure_datetime_series(df.rows[i][c]).isnull
           /\ df.rows[i][c] # NaN
        THEN <<>> ELSE df.rows[i][c]]]]

\* steps 2 and 3: the cells of the listed columns that the dataset has are
\* printed as dates ("" when they are none); time is the text strftime adds
\* to a date for the "%I:%M %p" part of the format
format_datetime_columns(df, cols, time) ==
  [df EXCEPT !.rows = [i \in 1..Len(df.rows) |->
     [c \in DOMAIN df.rows[i] |->
        IF c \notin Range(cols) THEN df.rows[i][c]
        ELSE IF ensure_datetime_series(df.rows[i][c]).isnull THEN <<>>
        ELSE Strftime_mdY(ensure_datetime_series(df.rows[i][c])) \o time]]]

\* ''.join(ch for ch in str(raw) if ch.isdigit())
DigitsOf(v) == SelectSeq(Str(v), LAMBDA ch : ch \in Digits)

\* the text of format_phone for the digits d of a cell
PhoneText(d) ==
  IF Len(d) = 10
  THEN <<"(">> \o SubSeq(d, 1, 3) \o <<")", " ">> \o SubSeq(d, 4, 6) \o <<"-">> \o SubSeq(d, 7, 10)
  ELSE IF Len(d) > 10
  THEN <<"(">> \o SubSeq(d, 1, Len(d) - 7) \o <<")", " ">>
         \o SubSeq(d, Len(d) - 6, Len(d) - 4) \o <<"-">> \o SubSeq(d, Len(d) - 3, Len(d))
  ELSE <<>>

format_phone(raw) ==
  IF raw = NaN THEN <<>>
  ELSE IF Len(DigitsOf(raw)) = 11 /\ Head(DigitsOf(raw)) = "1" THEN PhoneText(Tail(DigitsOf(raw)))
  ELSE PhoneText(DigitsOf(raw))

format_phone_columns(df, cols) ==
  [df EXCEPT !.rows = [i \in 1..Len(df.rows) |->
     [c \in DOMAIN df.rows[i] |->
        IF c \in Range(cols) THEN format_phone(df.rows[i][c]) ELSE df.rows[i][c]]]]

\* _fmt of format_zipcode_column: the first five digits, zero-filled
ZipText(v) ==
  LET d == IF v = NaN THEN <<>> ELSE DigitsOf(v)
  IN IF Len(d) = 0 THEN <<>>
     ELSE IF Len(d) >= 5 THEN SubSeq(d, 1, 5)
     ELSE [i \in 1..(5 - Len(d)) |-> "0"] \o d

format_zipcode_column(df) ==
  [df EXCEPT !.rows = [i \in 1..Len(df.rows) |->
     [c \in DOMAIN df.rows[i] |->
        IF c = "ZipCode" THEN ZipText(df.rows[i][c]) ELSE df.rows[i][c]]]]

\* step 4 (lines 998-1002): the result of format_phone_columns is assigned
\* to "_, _" and dropped; the working dataset is the result of
\* format_zipcode_column on the dataset as step 3 left it
Step4Result(df_work, phones) == format_zipcode_column(df_work)

(***************************************************************************)
(* The leads file cleaner page: one action is one run of                   *)
(* show_hubspot_file_creator, started by the user (a file is chosen or     *)
(* removed, a button is pressed) or by st.rerun()                          *)
(***************************************************************************)
\* presses of the Process button in one session
MaxRuns == 2

T_phone == <<"5", "5", "5", "1", "2", "3", "4", "5", "6", "7">>
T_123   == <<"1", "2", "3">>

\* no file in an uploader
NoUpload == [name |-> "", size |-> 0, df |-> NoFrame]

\* _file_sig: (name, size), None without a file
NoSig == [name |-> "", size |-> 0]

_file_sig(up) == [name |-> up.name, size |-> up.size]

\* main files: two leads with a phone number, one lead without anchor column,
\* and a file of the same name and size as the latter about another lead
MainUploads ==
  {[name |-> "a.csv", size |-> 1,
    df |-> Frame(<<"Id", "Email", "CellPhoneNumber", "ZipCode", "LeadStatus">>,
                 <<[Id |-> T_7, Email |-> T_ad, CellPhoneNumber |-> T_phone,
                    ZipCode |-> T_zip, LeadStatus |-> T_open],
                   [Id |-> T_8, Email |-> NaN, CellPhoneNumber |-> NaN,
                    ZipCode |-> T_123, LeadStatus |-> T_open]>>)],
   [name |-> "b.csv", size |-> 2,
    df |-> Frame(<<"Id", "LeadStatus">>, <<[Id |-> T_7, LeadStatus |-> T_open]>>)],
   [name |-> "b.csv", size |-> 2,
    df |-> Frame(<<"Id", "LeadStatus">>, <<[Id |-> T_9, LeadStatus |-> T_open]>>)]}

\* previous files: with and without the Id column
PrevUploads ==
  {[name |-> "p.xlsx", size |-> 3,
    df |-> Frame(<<"Id", "Asked Contact For Promos">>,
                 <<LeadRow(<<"Id", "Asked Contact For Promos">>, T_7, T_Yes, <<>>, <<>>)>>)],
   [name |-> "q.xlsx", size |-> 4,
    df |-> Frame(<<"Asked Contact For Promos">>,
                 <<LeadRow(<<"Asked Contact For Promos">>, T_7, T_Yes, <<>>, <<>>)>>)]}

\* tables of pending updates: none, one for lead 7, one more for an unknown lead
UiTables ==
  {<<>>,
   <<[id |-> T_u1, lead |-> T_7, email |-> None,
      payload |-> Payload(T_Yes, None, None), added |-> FALSE]>>,
   <<[id |-> T_u1, lead |-> T_7, email |-> None,
      payload |-> Payload(T_Yes, None, None), added |-> FALSE],
     [id |-> T_u2, lead |-> T_9, email |-> None,
      payload |-> Payload(T_Yes, None, None), added |-> FALSE]>>}

UiStores == {NoObject, File(AllCols, <<Row(T_7, T_Y, T_45292, T_iso2024, NaN)>>)}

\* lines 906-922: the session state after the files changed, which is the
\* initial one (lines 850-867) but for the signatures
ResetState(main_file, prev_file) ==
  [NoLeads EXCEPT !.main_file = main_file, !.prev_file = prev_file,
                  !.last_main_file_sig = _file_sig(main_file),
                  !.last_prev_file_sig = _file_sig(prev_file),
                  !.run = leads.run]

\* the user puts a file into an uploader, replaces it or removes it.  When a
\* signature differs from the stored one the state is reset (lines 903-922);
\* otherwise the session is left as it is.  Without a main file the run ends
\* there (lines 924-927).
ChooseFiles ==
  /\ \E m \in MainUploads \cup {NoUpload}, p \in PrevUploads \cup {NoUpload} :
       /\ <<m, p>> # <<leads.main_file, leads.prev_file>>
       /\ leads' = IF \/ _file_sig(m) # leads.last_main_file_sig
                      \/ _file_sig(p) # leads.last_prev_file_sig
                   THEN ResetState(m, p)
                   ELSE [leads EXCEPT !.main_file = m, !.prev_file = p]
  /\ UNCHANGED <<store, uploaded, auto_replace, calls, result, snapshot, ge_latest,
                 lead_updates, events, cell, http>>

\* the Process button (lines 966-974): the loaded files are copied into the
\* session and proc_step becomes 1; nothing else of the session is touched
ClickProcess ==
  /\ leads.main_file # NoUpload
  /\ leads.run < MaxRuns
  /\ leads' = [leads EXCEPT !.df_work = leads.main_file.df,
                            !.prev_df = leads.prev_file.df,
                            !.step = 1,
                            !.run = @ + 1]
  /\ UNCHANGED <<store, uploaded, auto_replace, calls, result, snapshot, ge_latest,
                 lead_updates, events, cell, http>>

\* mutation of the step counter: the next step is skipped
StepAfterNext(step) == step + 2

\* line 1039: proc_step = step + 1
StepAfter(step) == step + 1

\* the run with proc_step = k stores df and goes on to the next step
NextStep(k, df) ==
  /\ leads.step = k
  /\ leads' = [leads EXCEPT !.df_work = df, !.step = StepAfter(k)]
  /\ UNCHANGED <<store, uploaded, auto_replace, calls, result, snapshot, ge_latest,
                 lead_updates, events, cell, http>>

Step1 == leads.step = 1 /\ NextStep(1, clean_majority_date_like_columns(leads.df_work))

Step2 ==
  leads.step = 2
    /\ NextStep(2, format_datetime_columns(leads.df_work, DATETIME_COLS,
                                           <<" ", "1", "2", ":", "0", "0", " ", "A", "M">>))

Step3 == leads.step = 3 /\ NextStep(3, format_datetime_columns(leads.df_work, DATE_ONLY_COLS, <<>>))

Step4 ==
  leads.step = 4
    /\ NextStep(4, Step4Result(leads.df_work, format_phone_columns(leads.df_work, PHONE_COLS)))

InitUi ==
  /\ store \in UiStores
  /\ uploaded = NoObject
  /\ auto_replace = TRUE
  /\ calls = <<>>
  /\ result = NoResult
  /\ snapshot = NoSnapshot
  /\ ge_latest = NoLatest
  /\ lead_updates \in UiTables
  /\ events = <<>>
  /\ cell = NoCell
  /\ http = NoHttp
  /\ leads = NoLeads

NextUi ==
  \/ ChooseFiles
  \/ ClickProcess
  \/ Step1
  \/ Step2
  \/ Step3
  \/ Step4
  \/ Step5
  \/ Step6
  \/ Step7
  \/ GenerateFinal

SpecUi == InitUi /\ [][NextUi]_vars

(***************************************************************************)
(* The external calls of the leads pipeline.  Each call is made through a  *)
(* session of create_session_with_retries, whose adapter sends the request *)
(* again while the Retry strategy allows it.                               *)
(***************************************************************************)
\* Retry(total=3, ...)
RETRY_TOTAL == 3

STATUS_FORCELIST == {429, 500, 502, 503, 504}

ALLOWED_METHODS == {"HEAD", "GET", "PUT", "DELETE", "OPTIONS", "TRACE"}

\* statuses the Data Store and the File Store answer with
Statuses == {200, 400, 404} \cup STATUS_FORCELIST

ExternalCalls == {"fetch_pending", "download_overlay", "mark_added"}

\* session.get for the two reads, session.patch for the acknowledgement
MethodOf(call) == IF call = "mark_added" THEN "PATCH" ELSE "GET"

\* Retry.is_retry: the method must be allowed and the status in the forcelist
is_retry(method, status) == method \in ALLOWED_METHODS /\ status \in STATUS_FORCELIST

\* what the calling function returns for the response it received
Returned(call, status) ==
  IF call = "download_overlay" /\ status = 404 THEN "absent"
  ELSE IF status >= 400 THEN "failed"
  ELSE "ok"

\* the adapter receives status st for the request: it sends the request
\* again, raises once the retries are used up (which the caller catches and
\* reports), or hands the response to the caller
Receive(st) ==
  /\ http.result = "pending"
  /\ http' = [http EXCEPT
                !.statuses = Append(@, st),
                !.result = IF is_retry(MethodOf(http.call), st)
                           THEN IF Len(http.statuses) < RETRY_TOTAL THEN "pending" ELSE "failed"
                           ELSE Returned(http.call, st)]
  /\ UNCHANGED <<store, uploaded, auto_replace, calls, result, snapshot, ge_latest, leads,
                 lead_updates, events, cell>>

FetchPending == http.call = "fetch_pending" /\ \E st \in Statuses : Receive(st)

DownloadOverlay == http.call = "download_overlay" /\ \E st \in Statuses : Receive(st)

MarkAddedCall == http.call = "mark_added" /\ \E st \in Statuses : Receive(st)

InitHttp ==
  /\ store = NoObject
  /\ uploaded = NoObject
  /\ auto_replace = TRUE
  /\ calls = <<>>
  /\ result = NoResult
  /\ snapshot = NoSnapshot
  /\ ge_latest = NoLatest
  /\ lead_updates = <<>>
  /\ events = <<>>
  /\ leads = NoLeads
  /\ cell = NoCell
  /\ http \in {[call |-> c, statuses |-> <<>>, result |-> "pending"] : c \in ExternalCalls}

NextHttp == FetchPending \/ DownloadOverlay \/ MarkAddedCall

SpecHttp == InitHttp /\ [][NextHttp]_vars

(***************************************************************************)
(* Properties of the Normalizer and of the overlay-source loader           *)
(* (checked under SpecNorm)                                                *)
(***************************************************************************)
\* the rows of the stored file as pandas reads them
StoredRows == read_excel(store).rows

\* the Normalizer ran on the stored file and returned a Snapshot
Normalized == snapshot.done /\ ~snapshot.out.err

\* the last stored row whose Id cell, stripped, is the identifier id
LastStripped(id) ==
  StoredRows[CHOOSE i \in 1..Len(StoredRows) :
               /\ Strip(Str(StoredRows[i].Id)) = id
               /\ \A j \in (i + 1)..Len(StoredRows) : Strip(Str(StoredRows[j].Id)) # id]

\* the last stored row whose Id cell normalizes (by _norm_id) to id
LastNormed(id) ==
  StoredRows[CHOOSE i \in 1..Len(StoredRows) :
               /\ _norm_id(StoredRows[i].Id) = id
               /\ \A j \in (i + 1)..Len(StoredRows) : _norm_id(StoredRows[j].Id) # id]

\* C1: the Snapshot returned by normalize_excel_bytes holds no two Records
\* with the same non-empty identifier
C1_UniqueIdentifiers ==
  Normalized =>
    \A i, j \in 1..Len(snapshot.out.df) :
      (snapshot.out.df[i].id = snapshot.out.df[j].id /\ snapshot.out.df[i].id # <<>>) => i = j

\* two stored rows carry the same identifier and the Normalizer kept one Record
C1_Witness ==
  /\ Normalized
  /\ Len(StoredRows) = 2
  /\ StoredRows[1].Id # StoredRows[2].Id
  /\ Strip(Str(StoredRows[1].Id)) = Strip(Str(StoredRows[2].Id))
  /\ Len(snapshot.out.df) = 1

\* C2: when several rows carry one identifier, the Record kept by the
\* Normalizer, and by the overlay-source loader, has the field values of the
\* row that occurs last in input order
C2_LastOccurrenceWins ==
  /\ Normalized =>
       \A k \in 1..Len(snapshot.out.df) :
         LET r == LastStripped(snapshot.out.df[k].id)
         IN /\ snapshot.out.df[k].has_fence    = _normalize_yes_no(Strip(Str(r.fence)))
            /\ snapshot.out.df[k].last_picture = _parse_us_date(Strip(Str(r.pic)))
            /\ snapshot.out.df[k].last_checked = _parse_us_date(Strip(Str(r.chk)))
  /\ ge_latest.status = "ok" =>
       \A k \in 1..Len(ge_latest.df) :
         LET r == LastNormed(ge_latest.df[k].Id)
         IN /\ ge_latest.df[k].fence = _normalize_yes_no_ge(r.fence)
            /\ ge_latest.df[k].pic   = _parse_to_mmddyyyy_ge(r.pic)
            /\ ge_latest.df[k].chk   = _parse_to_mmddyyyy_ge(r.chk)

\* both readers met two rows of one identifier that differ in the fence flag
C2_Witness ==
  /\ Normalized
  /\ ge_latest.status = "ok"
  /\ Len(StoredRows) = 2
  /\ StoredRows[1].Id = StoredRows[2].Id
  /\ _normalize_yes_no(StoredRows[1].fence) # _normalize_yes_no(StoredRows[2].fence)
  /\ Len(snapshot.out.df) = 1
  /\ Len(ge_latest.df) = 1
  /\ snapshot.out.df[1].has_fence = _normalize_yes_no(StoredRows[2].fence)
  /\ ge_latest.df[1].fence = _normalize_yes_no_ge(StoredRows[2].fence)

\* C3: the Normalizer's identifier is the numeric-preferring normal form of
\* the raw Id cell ("1,024" gives "1024"), a boolean-like cell gives Yes/No
\* and a serial-day cell gives the calendar date of that serial
C3_NumericIdentifier ==
  Normalized =>
    \A i \in 1..Len(StoredRows) :
      _norm_id(StoredRows[i].Id) # <<>> =>
        \E k \in 1..Len(snapshot.out.df) :
          /\ snapshot.out.df[k].id = _norm_id(StoredRows[i].Id)
          /\ (Len(StoredRows) = 1 /\ StoredRows[i].fence = T_Y)
               => snapshot.out.df[k].has_fence = T_Yes
          /\ (Len(StoredRows) = 1 /\ StoredRows[i].pic = T_45292)
               => snapshot.out.df[k].last_picture = DateOf(45292)

\* the null-like identifiers of the data model
NullLikeId(v) == Lower(Strip(Str(v))) \in {<<>>, T_nan, T_none, T_null}

\* C4: no row with an empty or null-like identifier is in the Snapshot, and
\* discarded_empty_id is the number of such input rows
C4_EmptyIdsDiscarded ==
  Normalized =>
    /\ \A k \in 1..Len(snapshot.out.df) : ~NullLikeId(snapshot.out.df[k].id)
    /\ snapshot.out.metrics.discarded_empty_id
         = Cardinality({i \in 1..Len(StoredRows) : NullLikeId(StoredRows[i].Id)})

\* a text of digits only
IsSerialText(v) == v # NaN /\ IsDigitStr(Strip(v))

SerialInRange(v) ==
  DigitsVal(Strip(v)) >= SerialMin /\ DigitsVal(Strip(v)) <= SerialMax

\* C5: a serial day outside 1..60000 is rejected (blank cell, counted
\* invalid) and a serial day inside it is accepted, by the Normalizer's date
\* parser and by the overlay loader's date parser
C5_SerialDayRange ==
  /\ Normalized =>
       \A k \in 1..Len(snapshot.out.df) :
         LET r == LastStripped(snapshot.out.df[k].id)
         IN IsSerialText(r.pic) =>
              IF SerialInRange(r.pic)
              THEN snapshot.out.df[k].last_picture = DateOf(DigitsVal(Strip(r.pic)))
              ELSE /\ snapshot.out.df[k].last_picture = NoDate
                   /\ snapshot.out.metrics.invalid_date_picture > 0
  /\ ge_latest.status = "ok" =>
       \A k \in 1..Len(ge_latest.df) :
         LET r == LastNormed(ge_latest.df[k].Id)
         IN IsSerialText(r.pic) =>
              IF SerialInRange(r.pic)
              THEN ge_latest.df[k].pic = Strftime_mdY(DateOf(DigitsVal(Strip(r.pic))))
              ELSE ge_latest.df[k].pic = <<>>

(***************************************************************************)
(* Properties of the File Control page (checked under Spec)                *)
(***************************************************************************)
\* C6 as stated: when a required column is missing from the uploaded file,
\* the run ends with the schema error before any call to the File Store
C6_NoCallBeforeSchemaError ==
  result.status = "schema_error" => calls = <<>>

\* C6, amended: a run that ends with the schema error has looked up the
\* signed URL and downloaded the baseline, and nothing else: it uploads
\* nothing and leaves the stored baseline as it was
C6_SchemaErrorWritesNothing ==
  [][result'.status = "schema_error"
       => (store' = store /\ calls' = <<"signed_url", "download">>)]_vars

\* a file without the Id column was uploaded while auto-replace was on
C6_Witness ==
  /\ result.status = "schema_error"
  /\ ~uploaded.absent
  /\ "Id" \notin uploaded.cols
  /\ auto_replace
  /\ calls = <<"signed_url", "download">>

(***************************************************************************)
(* Properties of the Baseline Differ (checked under SpecDiff)              *)
(***************************************************************************)
Compared == result.status = "compared"

\* C7: compare_new_vs_baseline places every identifier of the new Snapshot
\* in exactly one of added, modified, unchanged, and the three counts add up
\* to the number of distinct identifiers of the new Snapshot
C7_ExactlyOneClass ==
  Compared =>
    LET s   == result.flow.summary
        ids == IdsOf(result.flow.new_df)
    IN /\ s.added_ids \cup s.modified_ids \cup s.unchanged_ids = ids
       /\ s.added_ids \cap s.modified_ids = {}
       /\ s.added_ids \cap s.unchanged_ids = {}
       /\ s.modified_ids \cap s.unchanged_ids = {}
       /\ s.new_records = Cardinality(s.added_ids)
       /\ s.modified_records = Cardinality(s.modified_ids)
       /\ s.unchanged_records = Cardinality(s.unchanged_ids)
       /\ s.new_records + s.modified_records + s.unchanged_records = Cardinality(ids)

\* a comparison with one added and one modified identifier
C7_Witness ==
  /\ Compared
  /\ Len(result.flow.new_df) = 2
  /\ result.flow.summary.new_records = 1
  /\ result.flow.summary.modified_records = 1

\* C8: an identifier of both Snapshots is modified exactly when has_fence,
\* last_picture or last_checked differs, and unchanged exactly when the
\* three are equal (blank dates are equal); no other column matters
C8_TrackedFieldsDecide ==
  Compared =>
    \A i \in IdsOf(result.flow.new_df) \cap IdsOf(result.flow.base_df) :
      LET a == Loc(result.flow.new_df, i)
          b == Loc(result.flow.base_df, i)
          same == /\ a.has_fence = b.has_fence
                  /\ a.last_picture = b.last_picture
                  /\ a.last_checked = b.last_checked
      IN /\ (i \in result.flow.summary.modified_ids) <=> ~same
         /\ (i \in result.flow.summary.unchanged_ids) <=> same

\* the new row differs from the baseline row in the Notes cell only, both
\* have a blank last-checked date, and the identifier is unchanged
C8_Witness ==
  /\ Compared
  /\ Len(uploaded.rows) = 1 /\ Len(store.rows) = 1
  /\ uploaded.rows[1].note # store.rows[1].note
  /\ Len(result.flow.new_df) = 1 /\ Len(result.flow.base_df) = 1
  /\ result.flow.new_df[1].last_checked = NoDate
  /\ result.flow.base_df[1].last_checked = NoDate
  /\ result.flow.summary.unchanged_ids = {result.flow.new_df[1].id}

\* the baseline is absent, or holds no Record
FirstRun == Compared /\ Len(result.flow.base_df) = 0

\* C9 as stated: with an empty or absent baseline run_compare_flow reports
\* added = number of new Records, modified 0, unchanged 0 and replace_baseline
C9_FirstRunReplaces ==
  FirstRun =>
    /\ result.flow.summary.new_records = Len(result.flow.new_df)
    /\ result.flow.summary.modified_records = 0
    /\ result.flow.summary.unchanged_records = 0
    /\ result.flow.replace_baseline

\* C9, amended: with an empty or absent baseline run_compare_flow reports
\* added = number of new Records, modified 0, unchanged 0, and
\* replace_baseline exactly when the new Snapshot has at least one Record
C9_FirstRunReplacesIfAnyRecord ==
  FirstRun =>
    /\ result.flow.summary.new_records = Len(result.flow.new_df)
    /\ result.flow.summary.modified_records = 0
    /\ result.flow.summary.unchanged_records = 0
    /\ result.flow.replace_baseline <=> (Len(result.flow.new_df) > 0)

\* no baseline object is stored and the new file yields two Records
C9_Witness ==
  /\ FirstRun
  /\ store = NoObject
  /\ result.flow.summary.new_records = 2
  /\ result.flow.replace_baseline

(***************************************************************************)
(* Properties of step 5 of the leads pipeline (checked under SpecLeads)    *)
(***************************************************************************)
\* step 5 ran apply_after_leadstatus_rules on leads.enriched with a previous file
RulesApplied == leads.step = 6 /\ leads.prev_df # NoFrame

\* the cell of a post-group column before the previous file is consulted:
\* the given cell, or the column default when the cell is blank
Defaulted(v, c) ==
  IF IsBlankCell(v) /\ DEFAULTS_AFTER_LEADSTATUS[c] # <<>>
  THEN DEFAULTS_AFTER_LEADSTATUS[c] ELSE v

\* the previous file has a row with identifier id holding v in column c
PrevHolds(id, c, v) ==
  /\ c \in Columns(leads.prev_df)
  /\ "Id" \in Columns(leads.prev_df)
  /\ \E j \in 1..Len(leads.prev_df.rows) :
       leads.prev_df.rows[j]["Id"] = id /\ leads.prev_df.rows[j][c] = v

\* C10: apply_after_leadstatus_rules replaces a current cell by the previous
\* file's value for the same identifier only if that value is non-blank,
\* differs from the column default and the current value equals the column
\* default; a current value that is neither blank nor the default is kept
C10_ReplaceOnlyDefault ==
  RulesApplied =>
    /\ Len(leads.df_work.rows) = Len(leads.enriched.rows)
    /\ \A i \in 1..Len(leads.enriched.rows) :
         \A c \in Range(AFTER_LEADSTATUS) \cap Columns(leads.enriched) :
           LET cur == leads.enriched.rows[i][c]
               new == leads.df_work.rows[i][c]
               dflt == DEFAULTS_AFTER_LEADSTATUS[c]
           IN /\ new # Defaulted(cur, c) =>
                   /\ PrevHolds(leads.enriched.rows[i]["Id"], c, new)
                   /\ new # NaN /\ ~IsBlankCell(new)
                   /\ new # dflt
                   /\ Defaulted(cur, c) = dflt
              /\ (~IsBlankCell(cur) /\ cur # dflt) => new = cur

\* one row in which a default cell took the previous value while a cell that
\* held a value of its own kept it, although the previous file has another
C10_Witness ==
  /\ RulesApplied
  /\ leads.replacements = 1
  /\ Len(leads.enriched.rows) = 1
  /\ "Asked To Be Contacted On" \in Columns(leads.enriched)
  /\ leads.enriched.rows[1]["Asked Contact For Promos"] = T_No
  /\ leads.df_work.rows[1]["Asked Contact For Promos"] = T_Yes
  /\ leads.enriched.rows[1]["Asked To Be Contacted On"] = T_us2024
  /\ leads.df_work.rows[1]["Asked To Be Contacted On"] = T_us2024
  /\ PrevHolds(T_7, "Asked To Be Contacted On", T_d2)

\* step 5 ran to its end on the working dataset leads.before
Step5Done == leads.step = 6 /\ leads.before # NoFrame

TrackedColumns == Range(BEFORE_ZIPCODE) \cup Range(AFTER_LEADSTATUS)

TrackedDefault(c) ==
  IF c \in Range(AFTER_LEADSTATUS) THEN DEFAULTS_AFTER_LEADSTATUS[c] ELSE <<>>

\* the cell of column c in row i was blank or missing when step 5 started
WasBlankOrMissing(i, c) ==
  \/ c \notin Columns(leads.before)
  \/ leads.before.rows[i][c] = NaN
  \/ IsBlankCell(leads.before.rows[i][c])

\* the cell v of column c in row i is a value of the previous file for the
\* identifier of the row
BackFilled(i, c, v) ==
  /\ "Id" \in Columns(leads.before)
  /\ v # NaN /\ ~IsBlankCell(v)
  /\ PrevHolds(leads.before.rows[i]["Id"], c, v)

\* C11: after step 5 every tracked column of the pre-group and of the
\* post-group exists, and every cell of a tracked column that was blank or
\* missing holds the column default (or the value back-filled from the
\* previous file), with or without the anchor columns ZipCode and LeadStatus
\* and with or without a previous file
C11_TrackedColumnsDefaulted ==
  Step5Done =>
    /\ TrackedColumns \subseteq Columns(leads.df_work)
    /\ Len(leads.df_work.rows) = Len(leads.before.rows)
    /\ \A i \in 1..Len(leads.df_work.rows) :
         \A c \in TrackedColumns \cap Columns(leads.df_work) :
           WasBlankOrMissing(i, c) =>
             \/ leads.df_work.rows[i][c] = TrackedDefault(c)
             \/ BackFilled(i, c, leads.df_work.rows[i][c])

(***************************************************************************)
(* Properties of steps 6 and 7 of the leads pipeline and of the            *)
(* acknowledgement (checked under SpecPipe)                                *)
(***************************************************************************)
\* step 6 ran to its end: leads.before is the dataset it started from,
\* leads.df_work the dataset it stored
Step6Done == leads.step = 7

\* the lead identifier of the update u is the identifier of row i
IdMatches(u, i) ==
  /\ "Id" \in Columns(leads.before)
  /\ LeadKey(u).kind # "none"
  /\ RowIdKey(leads.before.rows[i]["Id"]) = LeadKey(u)

\* the email of the update u is, trimmed and in lower case, the email of row i
EmailMatches(u, i) ==
  /\ "Email" \in Columns(leads.before)
  /\ u.email # None
  /\ leads.before.rows[i]["Email"] # NaN
  /\ Lower(Strip(u.email)) # <<>>
  /\ Lower(Strip(leads.before.rows[i]["Email"])) = Lower(Strip(u.email))

\* C12: an update whose lead identifier matches a Record is applied to a
\* Record with that identifier, whatever its email; the email (trimmed,
\* case-insensitive) decides only when the identifier is absent or matches no
\* Record, and then it is used
C12_IdentifierBeforeEmail ==
  Step6Done =>
    \A k \in 1..Len(leads.fetch.data) :
      LET u    == leads.fetch.data[k]
          pos  == leads.matched[k]
          rows == 1..Len(leads.before.rows)
      IN /\ (\E i \in rows : IdMatches(u, i)) => (pos # 0 /\ IdMatches(u, pos))
         /\ (~(\E i \in rows : IdMatches(u, i)) /\ pos # 0) => EmailMatches(u, pos)
         /\ (~(\E i \in rows : IdMatches(u, i)) /\ (\E i \in rows : EmailMatches(u, i)))
              => pos # 0

\* an update with the identifier of the first row and the email of the second
\* was written to the first row, and the second row was left as it was
C12_Witness ==
  /\ Step6Done
  /\ Len(leads.fetch.data) = 1
  /\ Len(leads.before.rows) = 2
  /\ IdMatches(leads.fetch.data[1], 1)
  /\ EmailMatches(leads.fetch.data[1], 2)
  /\ leads.matched[1] = 1
  /\ leads.df_work.rows[1] # leads.before.rows[1]
  /\ leads.df_work.rows[2] = leads.before.rows[2]

\* C13: after apply_supabase_pending_updates the processed ids are the ids
\* of the matched updates and of no unmatched update, and matched_rows +
\* unmatched is the number of pending updates fetched
C13_ProcessedIdsAreMatched ==
  Step6Done =>
    /\ \A k \in 1..Len(leads.fetch.data) :
         (leads.matched[k] # 0) <=> (leads.fetch.data[k].id \in Range(leads.proc_ids))
    /\ Len(leads.proc_ids) = leads.proc_sb_stats.matched_rows
    /\ leads.proc_sb_stats.matched_rows
         = Cardinality({k \in 1..Len(leads.fetch.data) : leads.matched[k] # 0})
    /\ leads.proc_sb_stats.matched_rows + leads.proc_sb_stats.unmatched
         = Len(leads.fetch.data)
    /\ leads.proc_sb_stats.pending = Len(leads.fetch.data)

\* two updates were fetched, the first matched no Record and the second did:
\* only the id of the second is in the processed ids
C13_Witness ==
  /\ Step6Done
  /\ Len(leads.fetch.data) = 2
  /\ leads.matched[1] = 0
  /\ leads.matched[2] # 0
  /\ leads.proc_ids = <<leads.fetch.data[2].id>>
  /\ leads.proc_sb_stats.unmatched = 1

\* the update u carries a value for a field mapped to column c
CarriesValueFor(u, c) ==
  \E key \in DOMAIN SUPABASE_TO_FILE_COLS :
    SUPABASE_TO_FILE_COLS[key] = c /\ u.payload[key] # None

\* the rows of the working dataset that step 6 changed
ChangedRows ==
  {i \in 1..Len(leads.before.rows) : leads.df_work.rows[i] # leads.before.rows[i]}

\* C14: the merge changes a cell only in the Record an update was matched to
\* and only in a column mapped from a field that this update carries with a
\* non-null value; one update changes cells of at most one Record, and every
\* other cell is left unchanged
C14_MergeFrame ==
  Step6Done =>
    /\ leads.df_work.cols = leads.before.cols
    /\ Len(leads.df_work.rows) = Len(leads.before.rows)
    /\ \A i \in 1..Len(leads.before.rows) :
         \A c \in Columns(leads.before) :
           leads.df_work.rows[i][c] # leads.before.rows[i][c] =>
             \E k \in 1..Len(leads.fetch.data) :
               leads.matched[k] = i /\ CarriesValueFor(leads.fetch.data[k], c)
    /\ Cardinality(ChangedRows)
         <= Cardinality({k \in 1..Len(leads.fetch.data) : leads.matched[k] # 0})

\* one update with a date and its flag was applied to the first of two rows:
\* the date arrived as MM/DD/YYYY, the flag verbatim, the column of a null
\* field kept its default and the second row is unchanged
C14_Witness ==
  /\ Step6Done
  /\ Len(leads.fetch.data) = 1
  /\ Len(leads.before.rows) = 2
  /\ leads.matched = <<1>>
  /\ leads.fetch.data[1].payload["asked_contact_for_promos_date"] = T_iso2024
  /\ leads.fetch.data[1].payload["asked_for_no_contact"] = None
  /\ leads.before.rows[1]["Asked Contact For Promos Date"] = <<>>
  /\ leads.df_work.rows[1]["Asked Contact For Promos Date"] = T_us2024
  /\ leads.df_work.rows[1]["Asked Contact For Promos"] = T_Yes
  /\ leads.df_work.rows[1]["Asked For No Contact"] = T_No
  /\ ChangedRows = {1}

\* C15: when the fetch of the pending updates or the download of the overlay
\* file has failed, the pipeline has stopped at that step with the failure
\* reported, and has published no processed dataset
C15_ExternalFailureStops ==
  /\ leads.fetch.err =>
       (leads.step = 0 /\ leads.error = "processing" /\ leads.processed_df_df = NoFrame)
  /\ leads.ge.status = "download_error" =>
       (leads.error = "processing" /\ leads.processed_df_df = NoFrame)

\* step 7 ran: leads.before is the dataset given to the Overlay Applier,
\* leads.ge the overlay source and leads.overlaid the dataset it returned
Step7Done == leads.overlaid # NoFrame

\* the overlay ran over the rows (it was not a no-op)
OverlayRan ==
  Step7Done /\ leads.ge.status = "ok" /\ Len(leads.ge.df) > 0 /\ "Id" \in Columns(leads.before)

\* the rows of the overlay source for the identifier of row i of the dataset
SourceRows(i) ==
  {j \in 1..Len(leads.ge.df) :
     _norm_id(leads.before.rows[i]["Id"]) # <<>>
       /\ leads.ge.df[j].Id = _norm_id(leads.before.rows[i]["Id"])}

\* the value of an overlay field before the overlay ("" for a column that
\* the overlay creates)
ValueBefore(i, c) ==
  IF c \in Columns(leads.before) THEN leads.before.rows[i][c] ELSE <<>>

\* the overlay field c of row i after an overlay from the source row r
Overlaid(i, c, v, valid) ==
  leads.overlaid.rows[i][c] = IF valid THEN v ELSE ValueBefore(i, c)

LastWithId(i) ==
  \A j \in (i + 1)..Len(leads.before.rows) :
    _norm_id(leads.before.rows[j]["Id"]) # _norm_id(leads.before.rows[i]["Id"])

C17_MissingSourceIsNoOp ==
  (Step7Done /\ leads.ge.status \in {"none", "error"}) =>
    /\ leads.overlaid = leads.before
    /\ leads.processed_df_df = FillNaFrame(leads.before)
    /\ leads.step = 0
    /\ leads.error # "processing"

\* the stored file lacks a required column; the dataset of two Records came
\* back unchanged and the final file was generated
C17_Witness ==
  /\ Step7Done
  /\ store # NoObject
  /\ leads.ge.status = "error"
  /\ Len(leads.before.rows) = 2
  /\ leads.overlaid = leads.before
  /\ leads.processed_df_df # NoFrame
  /\ leads.final_ready

\* the events about the update id hold "fetched", "applied" and "recorded"
\* in this order
ProcessedInOrder(id) ==
  \E a, b, c \in 1..Len(events) :
    /\ a < b /\ b < c
    /\ events[a] = <<"fetched", id>>
    /\ events[b] = <<"applied", id>>
    /\ events[c] = <<"recorded", id>>

\* C19: a step marks a pending update applied in the Data Store only if the
\* update was, in this order, fetched as not yet applied, matched and
\* written to a Record, and recorded in the processed ids, which still hold
\* it; so an update that was never matched is never marked
C19_MarkedAfterProcessed ==
  [][\A k \in 1..Len(lead_updates) :
       (lead_updates'[k].added /\ ~lead_updates[k].added) =>
         /\ ProcessedInOrder(lead_updates[k].id)
         /\ lead_updates[k].id \in Range(leads.proc_ids)
         /\ leads.processed_df_df # NoFrame]_vars

\* of two pending updates the first was matched and marked, the second was
\* fetched, never matched, and is still not marked
C19_Witness ==
  /\ Len(lead_updates) = 2
  /\ lead_updates[1].added
  /\ <<"marked", lead_updates[1].id>> \in Range(events)
  /\ ProcessedInOrder(lead_updates[1].id)
  /\ ~lead_updates[2].added
  /\ <<"fetched", lead_updates[2].id>> \in Range(events)
  /\ <<"applied", lead_updates[2].id>> \notin Range(events)
  /\ leads.final_ready

(***************************************************************************)
(* Invalid dates of the Normalizer (checked under SpecNorm)                *)
(***************************************************************************)
\* the cell v has none of the accepted shapes MM/DD/YYYY, YYYY-MM-DD and
\* serial day (a number), and is not effectively empty
InvalidDateCell(v) ==
  /\ Strptime_mdY(Strip(Str(v))).isnull
  /\ Strptime_Ymd(Strip(Str(v))).isnull
  /\ ~ParseFloat(Strip(Str(v))).ok
  /\ Lower(Strip(Str(v))) \notin {<<>>, T_nan, T_none, T_null, T_nat, <<"-">>}

\* the Records of the Snapshot whose stored cell of column fld is invalid
InvalidRecords(fld) ==
  {k \in 1..Len(snapshot.out.df) : InvalidDateCell(LastStripped(snapshot.out.df[k].id)[fld])}

\* the Records whose normalized date is blank although the cell is not empty
BlankedRecords(fld, out_fld) ==
  {k \in 1..Len(snapshot.out.df) :
     /\ snapshot.out.df[k][out_fld] = NoDate
     /\ ~_is_effectively_empty(LastStripped(snapshot.out.df[k].id)[fld])}

SamplesKept(count) ==
  IF ~snapshot.collect THEN 0
  ELSE IF count < max_samples_per_column THEN count ELSE max_samples_per_column

\* C18: a date cell with none of the accepted shapes that is not
\* effectively empty gives a blank normalized date and is counted in the
\* invalid-date metric of its column; the run is not aborted; and the
\* invalid-samples list of a column holds the first invalid cells, never
\* more than max_samples_per_column of them
C18_InvalidDatesCountedAndCapped ==
  /\ (snapshot.done /\ REQ_COLS \subseteq store.cols) => ~snapshot.out.err
  /\ Normalized =>
       /\ \A k \in InvalidRecords("pic") : snapshot.out.df[k].last_picture = NoDate
       /\ \A k \in InvalidRecords("chk") : snapshot.out.df[k].last_checked = NoDate
       /\ InvalidRecords("pic") \subseteq BlankedRecords("pic", "last_picture")
       /\ InvalidRecords("chk") \subseteq BlankedRecords("chk", "last_checked")
       /\ snapshot.out.metrics.invalid_date_picture
            = Cardinality(BlankedRecords("pic", "last_picture"))
       /\ snapshot.out.metrics.invalid_date_checked
            = Cardinality(BlankedRecords("chk", "last_checked"))
       /\ Len(snapshot.out.samples.invalid_picture_samples) <= max_samples_per_column
       /\ Len(snapshot.out.samples.invalid_checked_samples) <= max_samples_per_column
       /\ Len(snapshot.out.samples.invalid_picture_samples)
            = SamplesKept(snapshot.out.metrics.invalid_date_picture)
       /\ Len(snapshot.out.samples.invalid_checked_samples)
            = SamplesKept(snapshot.out.metrics.invalid_date_checked)

\* more invalid picture dates than the limit: all are counted and blank, the
\* samples stop at the limit, and the other column has two samples
C18_Witness ==
  /\ Normalized
  /\ snapshot.collect
  /\ Cardinality(InvalidRecords("pic")) > max_samples_per_column
  /\ snapshot.out.metrics.invalid_date_picture = Len(snapshot.out.df)
  /\ Len(snapshot.out.samples.invalid_picture_samples) = max_samples_per_column
  /\ Len(snapshot.out.samples.invalid_checked_samples) = 2
  /\ snapshot.out.df[1].last_picture = NoDate

(***************************************************************************)
(* Idempotence of the cell normalizers (checked under SpecIdem)            *)
(***************************************************************************)
\* a normalizer was applied to a cell and then to its own result
Renormalized == cell.applied >= 2

\* C20: every normalizer (identifier, yes/no, date) applied to its own
\* result returns that result again
C20_NormalizationIdempotent == Renormalized => cell.val = cell.once

\* the same, except for the overlay date normalizer on dates before the
\* year 1000 where strftime does not pad the year
IdempotentFromYear1000 ==
  (/\ Renormalized
   /\ ~(/\ cell.fn = "_parse_to_mmddyyyy_ge"
        /\ cell.w < 4
        /\ cell.raw \in {T_us999, T_iso999}))
    => cell.val = cell.once

\* the update u carries a numeric lead identifier
NumericLead(u) == u.lead # None /\ IsDigitStr(_norm_id(u.lead))

\* the rows of the dataset before the merge whose Id cell normalizes to the
\* lead identifier of u
SameNormalizedId(u) ==
  IF "Id" \notin Columns(leads.before) THEN {}
  ELSE {i \in 1..Len(leads.before.rows) : _norm_id(leads.before.rows[i]["Id"]) = _norm_id(u.lead)}

\* C21: an update whose lead is the number N is applied to a Record whose Id
\* cell normalizes to N, whichever form the cell has ("1024", "1,024",
\* "1024.0")
C21_NumericIdentifierForms ==
  Step6Done =>
    \A k \in 1..Len(leads.fetch.data) :
      (NumericLead(leads.fetch.data[k]) /\ SameNormalizedId(leads.fetch.data[k]) # {})
        => leads.matched[k] \in SameNormalizedId(leads.fetch.data[k])

\* the same for Id cells that int() accepts after the commas are removed
IntegerFormsMatch ==
  Step6Done =>
    \A k \in 1..Len(leads.fetch.data) :
      (/\ NumericLead(leads.fetch.data[k])
       /\ \E i \in SameNormalizedId(leads.fetch.data[k]) :
            RowIdKey(leads.before.rows[i]["Id"]).kind = "int")
        => leads.matched[k] \in SameNormalizedId(leads.fetch.data[k])

\* step 5 ran both enrichment stages with a previous file
Enriched == leads.step = 6 /\ leads.prev_df # NoFrame /\ leads.before # NoFrame

\* the rows of the previous file with the identifier id
PrevRowsOf(id) ==
  IF "Id" \notin Columns(leads.prev_df) THEN {}
  ELSE {j \in 1..Len(leads.prev_df.rows) : leads.prev_df.rows[j]["Id"] = id}

\* the previous file holds the identifier id in several rows that differ in
\* column c
PrevDiffers(id, c) ==
  /\ c \in Columns(leads.prev_df)
  /\ \E j, k \in PrevRowsOf(id) : leads.prev_df.rows[j][c] # leads.prev_df.rows[k][c]

\* the value of column c in the last row of the previous file with identifier id
PrevLast(id, c) ==
  leads.prev_df.rows[CHOOSE j \in PrevRowsOf(id) : \A k \in PrevRowsOf(id) : k <= j][c]

\* the value of column c in the first row of the previous file with identifier id
PrevFirst(id, c) ==
  leads.prev_df.rows[CHOOSE j \in PrevRowsOf(id) : \A k \in PrevRowsOf(id) : j <= k][c]

\* the cells that the pre-group stage took from the previous file
PreGroupTaken ==
  {p \in (1..Len(leads.enriched.rows))
           \X (Range(BEFORE_ZIPCODE) \cap Columns(leads.prev_df) \cap Columns(leads.enriched)) :
     /\ "Id" \in Columns(leads.before)
     /\ PrevRowsOf(leads.before.rows[p[1]]["Id"]) # {}
     /\ WasBlankOrMissing(p[1], p[2])}

\* the cells that the post-group stage took from the previous file
PostGroupTaken ==
  {p \in (1..Len(leads.df_work.rows))
           \X (Range(AFTER_LEADSTATUS) \cap Columns(leads.prev_df)) :
     /\ "Id" \in Columns(leads.enriched)
     /\ PrevRowsOf(leads.enriched.rows[p[1]]["Id"]) # {}
     /\ leads.df_work.rows[p[1]][p[2]] # Defaulted(leads.enriched.rows[p[1]][p[2]], p[2])}

\* C22: a cell back-filled by an enrichment stage holds the value of the
\* last row of the previous file with the identifier of the Record, in the
\* pre-group and in the post-group columns
C22_BackFillFromLast ==
  Enriched =>
    /\ \A p \in PreGroupTaken :
         leads.enriched.rows[p[1]][p[2]] = PrevLast(leads.before.rows[p[1]]["Id"], p[2])
    /\ \A p \in PostGroupTaken :
         leads.df_work.rows[p[1]][p[2]] = PrevLast(leads.enriched.rows[p[1]]["Id"], p[2])

\* what the stages do: the value is that of the first row with the identifier
BackFillFromFirst ==
  Enriched =>
    /\ \A p \in PreGroupTaken :
         leads.enriched.rows[p[1]][p[2]] = PrevFirst(leads.before.rows[p[1]]["Id"], p[2])
    /\ \A p \in PostGroupTaken :
         leads.df_work.rows[p[1]][p[2]] = PrevFirst(leads.enriched.rows[p[1]]["Id"], p[2])

\* both stages met an identifier held by rows of the previous file that differ
BackFillFromDuplicates ==
  /\ Enriched
  /\ \/ \E p \in PreGroupTaken : PrevDiffers(leads.before.rows[p[1]]["Id"], p[2])
     \/ \E p \in PostGroupTaken : PrevDiffers(leads.enriched.rows[p[1]]["Id"], p[2])

\* the pre-group columns that enrich_from_previous_for_columns found in its
\* input and in the previous file (insert_columns adds the missing pre-group
\* columns when the dataset has a ZipCode column)
PreGroupShared ==
  {c \in Range(BEFORE_ZIPCODE) \cap Columns(leads.prev_df) :
     c \in Columns(leads.before) \/ "ZipCode" \in Columns(leads.before)}

\* the cells of the pre-group columns that were blank and now hold a value of
\* the previous file
PreGroupReplaced ==
  {p \in (1..Len(leads.enriched.rows)) \X PreGroupShared :
     /\ WasBlankOrMissing(p[1], p[2])
     /\ BackFilled(p[1], p[2], leads.enriched.rows[p[1]][p[2]])}

\* the cells of the post-group columns that the second stage changed
PostGroupReplaced ==
  {p \in (1..Len(leads.df_work.rows)) \X (Range(AFTER_LEADSTATUS) \cap Columns(leads.prev_df)) :
     leads.df_work.rows[p[1]][p[2]] # Defaulted(leads.enriched.rows[p[1]][p[2]], p[2])}

\* the count of apply_after_leadstatus_rules is the number of replaced cells
ReplacementsCounted == Enriched => leads.replacements = Cardinality(PostGroupReplaced)

\* C23: the count returned by each enrichment function is the number of
\* cells replaced by a value of the previous file; a blank cell whose
\* identifier has no row or no value in the previous file is not counted
C23_CountsAreReplacements ==
  Enriched =>
    /\ leads.rows_enriched = Cardinality(PreGroupReplaced)
    /\ leads.replacements = Cardinality(PostGroupReplaced)

(***************************************************************************)
(* Retries of the external calls (checked under SpecHttp)                  *)
(***************************************************************************)
\* the call ended: a result was returned to the pipeline
CallEnded == http.result \notin {"idle", "pending"}

\* every response but the last had a transient status
EarlierTransient ==
  \A k \in 1..(Len(http.statuses) - 1) : http.statuses[k] \in STATUS_FORCELIST

\* a call that ended on a transient status was sent again RETRY_TOTAL times
\* before it was reported as failed
RetriedThenFailed ==
  (CallEnded /\ http.statuses[Len(http.statuses)] \in STATUS_FORCELIST)
    => (http.result = "failed" /\ Len(http.statuses) = RETRY_TOTAL + 1)

\* C24: each of the three external calls is sent again when it gets a
\* transient status (429, 500, 502, 503, 504), at most 3 times, and is then
\* reported as failed
C24_TransientStatusRetried ==
  /\ Len(http.statuses) <= RETRY_TOTAL + 1
  /\ EarlierTransient
  /\ RetriedThenFailed

\* the same for the two reads only
ReadsRetried == http.call # "mark_added" => C24_TransientStatusRetried

(***************************************************************************)
(* Properties of the leads file cleaner page (checked under SpecUi)        *)
(***************************************************************************)
\* the step from this state to the next belongs to the run in progress: the
\* Process button was not pressed
SameRun == leads'.run = leads.run

\* C25: within one run of the pipeline proc_step changes by +1 or is reset
\* to 0, so the stages run in the order 1 to 7, each once and one per run of
\* the page; the processed dataset changes only when step 7 completes (or is
\* cleared with the files); and a step that fails resets proc_step to 0 and
\* leaves the processed dataset as it was
C25_StagesInOrder ==
  [][/\ SameRun => leads'.step \in {leads.step, leads.step + 1, 0}
     /\ (SameRun /\ leads'.step = leads.step + 1 /\ leads.step > 0)
          => leads'.processed_df_df = leads.processed_df_df
     /\ leads'.processed_df_df # leads.processed_df_df
          => \/ leads.step = 7 /\ leads'.step = 0
             \/ leads'.processed_df_df = NoFrame
     /\ (leads.step \in 1..6 /\ leads'.step = 0)
          => leads'.processed_df_df \in {leads.processed_df_df, NoFrame}]_vars

\* a run went through the seven steps and published its dataset
C25_Witness ==
  /\ leads.run = 1
  /\ leads.step = 0
  /\ leads.processed_df_df # NoFrame
  /\ leads.overlaid # NoFrame
  /\ leads.processed_df_df = FillNaFrame(leads.overlaid)
  /\ ~leads.final_ready

\* the rows of the table of updates that this step marks as added
NewlyMarked ==
  {i \in 1..Len(lead_updates) : lead_updates'[i].added /\ ~lead_updates[i].added}

\* the dataset df holds what step 6 wrote for the update with identifier id
HoldsUpdate(df, id) ==
  \E k \in 1..Len(leads.fetch.data) :
    /\ leads.fetch.data[k].id = id
    /\ leads.matched[k] # 0
    /\ \A key \in WrittenKeys(leads.fetch.data[k]) :
         df.rows[leads.matched[k]][SUPABASE_TO_FILE_COLS[key]]
           = IF key \in DATE_KEYS THEN _fmt_mmddyyyy(leads.fetch.data[k].payload[key])
             ELSE leads.fetch.data[k].payload[key]

\* the acknowledged updates are those written into the processed dataset
AcknowledgedAreProcessed ==
  [][\A i \in NewlyMarked : HoldsUpdate(leads.processed_df_df, lead_updates[i].id)]_vars

\* C26: "Generate Final File" marks an update as added only if it also
\* produces the final export and the export holds the values the update wrote
C26_AcknowledgedOnlyWithExport ==
  [][NewlyMarked # {} =>
       /\ leads'.final_ready
       /\ leads'.final_bytes = leads.processed_df_df
       /\ \A i \in NewlyMarked : HoldsUpdate(leads'.final_bytes, lead_updates[i].id)]_vars

\* the update with identifier id is marked as added in the Data Store
Acknowledged(id) ==
  \E i \in 1..Len(lead_updates) : lead_updates[i].id = id /\ lead_updates[i].added

\* lines 1051 and 1096: the download buttons are rendered in a run of the page
\* with proc_step = 0, a processed dataset and final_ready
DownloadsOffered ==
  leads.step = 0 /\ leads.processed_df_df # NoFrame /\ leads.final_ready

\* C27: final_ready holds only if updates_marked holds; the final files are
\* offered only when every processed update id was acknowledged (or there
\* was none), and after a failed acknowledgement final_ready is false
C27_FinalOnlyAfterAcknowledged ==
  /\ leads.final_ready => leads.updates_marked
  /\ DownloadsOffered => leads.final_bytes # NoFrame
  /\ DownloadsOffered => \A k \in 1..Len(leads.proc_ids) : Acknowledged(leads.proc_ids[k])
  /\ leads.error = "mark" => ~leads.final_ready

\* the final files are offered after the processed update was acknowledged
C27_Witness ==
  /\ DownloadsOffered
  /\ leads.updates_marked
  /\ Len(leads.proc_ids) = 1
  /\ Acknowledged(leads.proc_ids[1])
  /\ leads.final_bytes = leads.processed_df_df

\* the signature of an uploaded file differs from the stored one
SignatureChanges ==
  \/ _file_sig(leads'.main_file) # leads.last_main_file_sig
  \/ _file_sig(leads'.prev_file) # leads.last_prev_file_sig

\* the pipeline state after a reset
PipelineReset ==
  /\ leads.step = 0
  /\ leads.processed_df_df = NoFrame
  /\ leads.pending_processed_ids = <<>>
  /\ leads.proc_ids = <<>>
  /\ ~leads.final_ready
  /\ leads.final_bytes = NoFrame

\* the identifiers of a dataset, row by row
IdColumn(df) == [i \in 1..Len(df.rows) |-> df.rows[i]["Id"]]

\* the export offered for download holds the leads of the uploaded main file
ExportOfCurrentFiles ==
  DownloadsOffered => IdColumn(leads.final_bytes) = IdColumn(leads.main_file.df)

\* a change of signature resets the pipeline state, and the stored
\* signatures are those of the files in the uploaders
ResetOnSignatureChange ==
  [][/\ SignatureChanges => PipelineReset'
     /\ leads'.last_main_file_sig = _file_sig(leads'.main_file)
     /\ leads'.last_prev_file_sig = _file_sig(leads'.prev_file)]_vars

\* C28: whenever the signature of the main or previous file changes the
\* pipeline state is reset (proc_step 0, no processed dataset, no pending
\* ids, no final export), so that a final export is only ever downloadable
\* for the currently uploaded files
C28_ExportOnlyForCurrentFiles ==
  [][/\ SignatureChanges => PipelineReset'
     /\ ExportOfCurrentFiles']_vars

\* a phone cell is blank, or is the text format_phone gives for it
PhoneCellFormatted(v) == v = <<>> \/ v = NaN \/ format_phone(v) = v

PhonesFormatted(df) ==
  \A i \in 1..Len(df.rows) :
    \A c \in DOMAIN df.rows[i] \cap Range(PHONE_COLS) : PhoneCellFormatted(df.rows[i][c])

\* C30: after step 4 every cell of every phone column of the working
\* dataset is blank or in the form produced by format_phone, and so it is
\* in the final processed dataset
C30_PhonesFormattedAfterStep4 ==
  /\ leads.step \in 5..7 => PhonesFormatted(leads.df_work)
  /\ leads.processed_df_df # NoFrame => PhonesFormatted(leads.processed_df_df)

(***************************************************************************)
(* Identifiers the new file lacks (checked under Spec)                     *)
(***************************************************************************)
\* the identifiers of the baseline that the new Snapshot does not have
RemovedIds(flow) == IdsOf(flow.base_df) \ IdsOf(flow.new_df)

\* the new Snapshot is the baseline Snapshot without some of its records
OnlyLacksRecords(flow) ==
  /\ RemovedIds(flow) # {}
  /\ \A i \in IdsOf(flow.new_df) :
       i \in IdsOf(flow.base_df) /\ Loc(flow.new_df, i) = Loc(flow.base_df, i)

RemovedCountedNowhere(flow) ==
  /\ RemovedIds(flow) \cap (flow.summary.added_ids \cup flow.summary.modified_ids
                             \cup flow.summary.unchanged_ids) = {}
  /\ flow.summary.new_records + flow.summary.modified_records
       + flow.summary.unchanged_records = Cardinality(IdsOf(flow.new_df))

\* C29: identifiers that occur only in the baseline are counted in none of
\* added, modified, unchanged, and a new file that only lacks baseline
\* identifiers yields replace_baseline false and leaves the stored baseline
C29_RemovedIdsChangeNothing ==
  [][result'.status = "compared" =>
       /\ RemovedCountedNowhere(result'.flow)
       /\ OnlyLacksRecords(result'.flow) =>
            /\ ~result'.flow.replace_baseline
            /\ ~result'.button
            /\ store' = store]_vars

\* a comparison of a new file that only lacks records of the baseline, which
\* was left in the File Store
C29_Witness ==
  /\ result.status = "compared"
  /\ OnlyLacksRecords(result.flow)
  /\ result.flow.summary.unchanged_records > 0
  /\ ~result.flow.replace_baseline
  /\ calls = <<"signed_url", "download">>
  /\ store # uploaded

====
